---------------------------- MODULE Spec2Model ----------------------------
(***************************************************************************)
(* instrgen: call-graph guided source instrumentation.                     *)
(*                                                                         *)
(* The module models the syntax trees the rewriters work on (files, decls, *)
(* statements, call expressions with the type information the checker      *)
(* attached to them), the analysis (declared functions, root functions,    *)
(* reverse call graph), the rewrite passes (BasicRewriter, OtelPruner,     *)
(* ContextPropagationPass) and the pass engine PackageAnalysis.Execute.    *)
(***************************************************************************)
EXTENDS Naturals, Integers, Sequences, FiniteSets, TLC

VARIABLES
    file,           \* the syntax tree of the file being rewritten
    orig,           \* the syntax tree as it was loaded
    prev,           \* the syntax tree before the last pass
    pc,             \* position in the pipeline
    RootFunctions,  \* PackageAnalysis.RootFunctions ([]FuncDescriptor)
    FuncDecls,      \* PackageAnalysis.FuncDecls (set of FuncDescriptor)
    Callgraph,      \* PackageAnalysis.Callgraph (callee -> sequence of callers)
    disk,           \* Execute: file name -> content on disk
    cursor,         \* Execute: index of the next selected file
    passCalls,      \* Execute: files the pass was invoked on, in order
    renames,        \* Execute: files whose side file was renamed over them
    result,         \* Execute: the returned (files, error), or still running
    debug,          \* PackageAnalysis.Debug
    selected        \* the files whose position contains PackagePattern

VARIABLES
    argv,           \* toolExecMain: the argument vector (args)
    argv0,          \* toolExecMain: the argument vector as received
    tpc,            \* toolExecMain: position in the handler
    destPath,       \* toolExecMain: directory of the -o argument
    tpkg,           \* toolExecMain: the -p argument
    pending,        \* analyzePackage: filePaths entries not yet visited
    trace,          \* the errors written to the trace file, in order
    outdir,         \* files created by the tool: path -> content
    rewritten,      \* paths whose tree was handed to rewriter.Rewrite
    parseFailed,    \* paths for which parser.ParseFile returned an error
    compiled,       \* the vector executePass ran the compiler with
    rewriter,       \* the PackageObserver analyzePackage works with
    slots,          \* runtime: the _tls_instrgen field of every g
    live,           \* runtime: the goroutines that are running
    own,            \* per goroutine: the value it was spawned with or set
                    \* last, and which of the two
    parent,         \* per goroutine: the goroutine that spawned it
    mutex,          \* LoadProgram: the callback holding the mutex, 0 if none
    ginfo,          \* LoadProgram: Defs, Uses, Selections of the shared Info
    info,           \* LoadProgram: entries per table of every package's Info
    cb,             \* LoadProgram: position of every AfterTypeCheck callback
    mode,           \* driver: the command, or the test harness
    cpc,            \* driver: pass, test case and file it is at, and status
    clog,           \* driver: the pass invocations on files, in order
    cerr,           \* driver: the pass whose Execute returned an error
    fileOffset,     \* server: the offset shared by the /terminal handlers
    logSize,        \* server: the size of instrgen.log
    handlers,       \* server: the locals of every /terminal request
    responses,      \* server: what the finished requests answered, in order
    maxOffset,      \* server: the highest value fileOffset has had
    osArgs,         \* command line: os.Args of the process
    fsys,           \* command line: what os.Stat finds at every path
    dpc,            \* command line: where main is
    dpaths,         \* command line: the project paths executeCommand got
    dchecked,       \* command line: the project paths validated so far
    dsteps,         \* command line: the analysis and tool steps run, in order
    derr,           \* command line: the error returned, "none" if none
    InterfaceImplMapping,   \* analysis: per interface type, the receiver
                            \* types registered as its implementations
    GInfo           \* analysis: the types LoadProgram recorded for the command,
                    \* held as the tree it type-checked

astVars  == <<file, orig, prev, pc>>
anaVars  == <<RootFunctions, FuncDecls, Callgraph, GInfo>>
execVars == <<disk, cursor, passCalls, renames, result, debug, selected>>
toolVars == <<argv, argv0, tpc, destPath, tpkg, pending, trace, outdir,
              rewritten, parseFailed, compiled, rewriter>>
rtVars   == <<slots, live, own, parent>>
loadVars == <<mutex, ginfo, info, cb>>
cmdVars  == <<mode, cpc, clog, cerr>>
srvVars  == <<fileOffset, logSize, handlers, responses, maxOffset>>
drvVars  == <<osArgs, fsys, dpc, dpaths, dchecked, dsteps, derr>>
ifcVars  == <<InterfaceImplMapping>>
auxVars  == <<toolVars, rtVars, loadVars, cmdVars, srvVars, drvVars, ifcVars>>
vars     == <<file, orig, prev, pc, RootFunctions, FuncDecls, Callgraph, GInfo,
              disk, cursor, passCalls, renames, result, debug, selected,
              auxVars>>

(***************************************************************************)
(* Bounds of the model.                                                    *)
(***************************************************************************)
MaxStmts  == 3      \* statements of a function body given to the pruner
MaxFields == 2      \* parameter fields of a signature given to the pruner

(***************************************************************************)
(* Generic helpers.                                                        *)
(***************************************************************************)
SeqsUpTo(S, n) == UNION {[1..k -> S] : k \in 0..n}

RECURSIVE SeqToSet(_)
SeqToSet(s) == IF s = <<>> THEN {} ELSE {Head(s)} \cup SeqToSet(Tail(s))

RECURSIVE ConcatAll(_)
ConcatAll(ss) == IF ss = <<>> THEN <<>> ELSE Head(ss) \o ConcatAll(Tail(ss))

(***************************************************************************)
(* strings.Contains(name, sub) for the identifiers of the model and the    *)
(* substrings the rewriters look for.                                      *)
(***************************************************************************)
\* strings.Contains(n, sub): sub occurs in n; the empty string occurs in
\* every string
strings_Contains(n, sub) ==
    \E i \in 1..(Len(n) - Len(sub) + 1) : SubSeq(n, i, i + Len(sub) - 1) = sub

(***************************************************************************)
(* Syntax trees.  An expression is an identifier, a call or something      *)
(* else; a call keeps what go/types recorded for it: recvT is              *)
(* Selections[sel].Recv() ("" when the selector is no method selection)    *)
(* and ftype is Uses[ident].Type() (NoType when there is none).            *)
(***************************************************************************)
NoType == "nil"

Ident(n)   == [e |-> "ident", fk |-> "", x |-> "", sel |-> n,
               recvT |-> "", ftype |-> NoType, args |-> <<>>]
OtherExpr(tag) == [e |-> "other", fk |-> "", x |-> "", sel |-> tag,
               recvT |-> "", ftype |-> NoType, args |-> <<>>]
\* f(args): Fun is an *ast.Ident
IdentCall(f, ftype, args) ==
    [e |-> "call", fk |-> "ident", x |-> "", sel |-> f,
     recvT |-> "", ftype |-> ftype, args |-> args]
\* x.sel(args): Fun is an *ast.SelectorExpr whose X is the identifier x
SelCall(x, sel, recvT, ftype, args) ==
    [e |-> "call", fk |-> "sel", x |-> x, sel |-> sel,
     recvT |-> recvT, ftype |-> ftype, args |-> args]
\* <expr>.sel(args): Fun is an *ast.SelectorExpr whose X is no identifier
ChainCall(tag, sel, args) ==
    [e |-> "call", fk |-> "selx", x |-> tag, sel |-> sel,
     recvT |-> "", ftype |-> NoType, args |-> args]

NoExpr == OtherExpr("")

AssignStmt(lhs, rhs) == [kind |-> "assign", lhs |-> lhs, rhs |-> rhs, x |-> NoExpr]
ExprStmt(x)  == [kind |-> "expr",  lhs |-> <<>>, rhs |-> <<>>, x |-> x]
DeferStmt(c) == [kind |-> "defer", lhs |-> <<>>, rhs |-> <<>>, x |-> c]

Field(names, type) == [names |-> names, type |-> type]

FuncDecl(name, recv, params, body) ==
    [kind |-> "func", name |-> name, recv |-> recv, params |-> params,
     body |-> body, methods |-> <<>>]
\* func name(params) without a body (implemented outside Go): Body is nil
ExternFuncDecl(name, params) ==
    [kind |-> "extern", name |-> name, recv |-> "", params |-> params,
     body |-> <<>>, methods |-> <<>>]
\* var name = func(params) { body }: a function literal outside every FuncDecl
VarFuncLit(name, params, body) ==
    [kind |-> "funclit", name |-> name, recv |-> "", params |-> params,
     body |-> body, methods |-> <<>>]
\* type name interface { methods }
InterfaceSpec(name, methods) ==
    [kind |-> "iface", name |-> name, recv |-> "", params |-> <<>>,
     body |-> <<>>, methods |-> methods]
Method(name, params) == [name |-> name, params |-> params]

Import(name, path) == [name |-> name, path |-> path]


(***************************************************************************)
(* OtelPruner (rewriters): removal of synthetic statements, parameters,    *)
(* arguments and imports.                                                  *)
(***************************************************************************)

\* removeStmt / removeField / removeExpr: append(slice[:s], slice[s+1:]...).
\* Go panics when s is outside 0..len-1; the callers test Panics(slice, s).
Panics(slice, s) == s < 0 \/ s >= Len(slice)
removeAt(slice, s) == SubSeq(slice, 1, s) \o SubSeq(slice, s + 2, Len(slice))

\* The body of one iteration of a removal loop: every condition that
\* matches the element taken at the start of the iteration removes the
\* element at the current index and decrements the index.
RECURSIVE removeHitsSkipping(_, _, _)
removeHitsSkipping(tagged, index, hits) ==
    IF hits = 0 THEN [list |-> tagged, index |-> index, panic |-> FALSE]
    ELSE IF Panics(tagged, index)
         THEN [list |-> tagged, index |-> index, panic |-> TRUE]
         ELSE removeHitsSkipping(removeAt(tagged, index), index, hits - 1)

RECURSIVE removeHits(_, _, _)
removeHits(tagged, index, hits) ==
    IF hits = 0 THEN [list |-> tagged, index |-> index, panic |-> FALSE]
    ELSE IF Panics(tagged, index)
         THEN [list |-> tagged, index |-> index, panic |-> TRUE]
         ELSE removeHits(removeAt(tagged, index), index - 1, hits - 1)

\* for index := 0; index < len(list); index++ { ... } over <<element, hits>>
RECURSIVE removalLoop(_, _)
removalLoop(tagged, index) ==
    IF index >= Len(tagged) THEN [list |-> tagged, panic |-> FALSE]
    ELSE LET r == removeHits(tagged, index, tagged[index + 1][2])
         IN  IF r.panic THEN [list |-> r.list, panic |-> TRUE]
             ELSE removalLoop(r.list, r.index + 1)

Untag(tagged) == [i \in 1..Len(tagged) |-> tagged[i][1]]

B2N(b) == IF b THEN 1 ELSE 0

\* for _, ident := range param.Names { if strings.Contains(ident.Name, "__atel_") ... }
RECURSIVE fieldHits(_)
fieldHits(names) ==
    IF names = <<>> THEN 0
    ELSE B2N(strings_Contains(Head(names), "__atel_")) + fieldHits(Tail(names))

paramHits(param) == fieldHits(param.names)
tagParams(params) == [i \in 1..Len(params) |-> <<params[i], paramHits(params[i])>>]

isAtelIdent(ex) == ex.e = "ident" /\ strings_Contains(ex.sel, "__atel_")

\* the switch over the statement in inspectFuncContent
stmtHits(stmt) ==
    CASE stmt.kind = "assign" ->
            B2N(isAtelIdent(stmt.lhs[1])) + B2N(isAtelIdent(stmt.rhs[1]))
      [] stmt.kind = "expr" ->
            IF stmt.x.e = "call" /\ stmt.x.fk \in {"sel", "selx"}
            THEN B2N(strings_Contains(stmt.x.sel, "SetTracerProvider"))
                 + B2N(strings_Contains(stmt.x.sel, "InstrgenSetTls"))
            ELSE 0
      [] stmt.kind = "defer" ->
            IF stmt.x.fk \in {"sel", "selx"}
            THEN B2N(strings_Contains(stmt.x.sel, "Shutdown")
                     /\ stmt.x.fk = "sel" /\ strings_Contains(stmt.x.x, "rtlib"))
                 + B2N(stmt.x.fk = "sel" /\ strings_Contains(stmt.x.x, "__atel_"))
            ELSE 0
      [] OTHER -> 0

tagStmts(body) == [i \in 1..Len(body) |-> <<body[i], stmtHits(body[i])>>]

pruneParams(params) ==
    LET r == removalLoop(tagParams(params), 0)
    IN  [list |-> Untag(r.list), panic |-> r.panic]

inspectFuncContent(params, body) ==
    LET p == pruneParams(params)
        b == removalLoop(tagStmts(body), 0)
    IN  [params |-> p.list,
         body   |-> IF p.panic THEN body ELSE Untag(b.list),
         panic  |-> p.panic \/ b.panic]

\* the two loops over x.Args in the *ast.CallExpr case
identArgHits(arg) == B2N(isAtelIdent(arg))
callArgHits(arg) ==
    B2N(arg.e = "call" /\ arg.fk = "sel" /\ strings_Contains(arg.x, "__atel_"))

tagIdentArgs(args) == [i \in 1..Len(args) |-> <<args[i], identArgHits(args[i])>>]
tagCallArgs(args) == [i \in 1..Len(args) |-> <<args[i], callArgHits(args[i])>>]

pruneArgs(args) ==
    LET first  == removalLoop(tagIdentArgs(args), 0)
        second == removalLoop(tagCallArgs(Untag(first.list)), 0)
    IN  Untag(second.list)

\* ast.Inspect reaches every call expression: the call itself, then the
\* calls among the arguments it kept.
RECURSIVE pruneCalls(_)
pruneCalls(ex) ==
    IF ex.e # "call" THEN ex
    ELSE LET kept == pruneArgs(ex.args)
         IN  [ex EXCEPT !.args = [i \in 1..Len(kept) |-> pruneCalls(kept[i])]]

pruneStmtCalls(stmt) ==
    [stmt EXCEPT !.lhs = [i \in 1..Len(stmt.lhs) |-> pruneCalls(stmt.lhs[i])],
                 !.rhs = [i \in 1..Len(stmt.rhs) |-> pruneCalls(stmt.rhs[i])],
                 !.x   = pruneCalls(stmt.x)]

\* the *ast.TypeSpec case: every method of an interface type
pruneMethods(methods) ==
    LET each == [i \in 1..Len(methods) |-> pruneParams(methods[i].params)]
    IN  [list  |-> [i \in 1..Len(methods) |->
                        [methods[i] EXCEPT !.params = each[i].list]],
         panic |-> \E i \in 1..Len(methods) : each[i].panic]

pruneDecl(d) ==
    IF d.kind = "iface"
    THEN LET m == pruneMethods(d.methods)
         IN  [decl |-> [d EXCEPT !.methods = m.list], panic |-> m.panic]
    ELSE IF d.kind = "extern"
    THEN [decl |-> d, panic |-> FALSE]      \* if x.Body != nil { ... }
    ELSE LET c == inspectFuncContent(d.params, d.body)
         IN  [decl  |-> [d EXCEPT !.params = c.params,
                                  !.body = [i \in 1..Len(c.body) |->
                                               pruneStmtCalls(c.body[i])]],
              panic |-> c.panic]

PrunedImports == {Import("__atel_context", "context"),
                  Import("__atel_otel", "go.opentelemetry.io/otel"),
                  Import("__atel_runtime", "runtime")}

\* OtelPruner.Rewrite over one file: the tree it leaves, or a panic
OtelPruner_Rewrite(f) ==
    LET each == [i \in 1..Len(f.decls) |-> pruneDecl(f.decls[i])]
    IN  [file  |-> [f EXCEPT !.decls = [i \in 1..Len(f.decls) |-> each[i].decl],
                             !.imports = f.imports \ PrunedImports],
         panic |-> \E i \in 1..Len(f.decls) : each[i].panic]


(***************************************************************************)
(* BasicRewriter (rewriters): the preambles and the pass that prepends     *)
(* them.                                                                   *)
(***************************************************************************)
Quoted(name) == "\"" \o name \o "\""

TracerStart(name, ctx) ==
    ChainCall("__atel_otel.Tracer(" \o Quoted(name) \o ")", "Start",
              <<Ident(ctx), Ident(Quoted(name))>>)

\* makeInitStmts: the preamble of main.main, eight statements
makeInitStmts(name) ==
    <<AssignStmt(<<Ident("__atel_ts")>>,
                 <<SelCall("rtlib", "NewTracingState", "", NoType, <<>>)>>),
      DeferStmt(SelCall("rtlib", "Shutdown", "", NoType, <<Ident("__atel_ts")>>)),
      ExprStmt(SelCall("__atel_otel", "SetTracerProvider", "", NoType,
                       <<OtherExpr("__atel_ts.Tp")>>)),
      AssignStmt(<<Ident("__atel_ctx")>>,
                 <<SelCall("__atel_context", "Background", "", NoType, <<>>)>>),
      AssignStmt(<<Ident("__atel_child_tracing_ctx"), Ident("__atel_span")>>,
                 <<TracerStart(name, "__atel_ctx")>>),
      AssignStmt(<<Ident("_")>>, <<Ident("__atel_child_tracing_ctx")>>),
      DeferStmt(SelCall("__atel_span", "End", "", NoType, <<>>)),
      ExprStmt(SelCall("__atel_runtime", "InstrgenSetTls", "", NoType,
                       <<Ident("__atel_child_tracing_ctx")>>))>>

makeSpanStmts(name, paramName) ==
    <<AssignStmt(<<Ident("__atel_tracing_ctx")>>,
                 <<OtherExpr("__atel_runtime.InstrgenGetTls().(__atel_context.Context)")>>),
      AssignStmt(<<Ident("__atel_child_tracing_ctx"), Ident("__atel_span")>>,
                 <<TracerStart(name, paramName)>>),
      ExprStmt(SelCall("__atel_runtime", "InstrgenSetTls", "", NoType,
                       <<Ident("__atel_child_tracing_ctx")>>)),
      DeferStmt(SelCall("__atel_span", "End", "", NoType, <<>>))>>

\* the preamble BasicRewriter.Rewrite chooses for a function declaration
preambleFor(pkg, name) ==
    IF pkg = "main" /\ name = "main"
    THEN makeInitStmts(name)
    ELSE makeSpanStmts(name, "__atel_tracing_ctx")

InjectedImports == {Import("__atel_context", "context"),
                    Import("__atel_otel", "go.opentelemetry.io/otel"),
                    Import("__atel_runtime", "runtime")}

\* BasicRewriter.Rewrite over one file: the tree it leaves, or a panic.
\* funDeclNode.Body.List of a declaration without a body dereferences nil;
\* the process ends before the tree is printed.
BasicRewriter_Rewrite(f) ==
    IF \E i \in 1..Len(f.decls) : f.decls[i].kind = "extern"
    THEN [file |-> f, panic |-> TRUE]
    ELSE [file |->
            [f EXCEPT
               !.decls = [i \in 1..Len(f.decls) |->
                            IF f.decls[i].kind = "func"
                            THEN [f.decls[i] EXCEPT
                                    !.body = preambleFor(f.pkg, f.decls[i].name)
                                             \o @]
                            ELSE f.decls[i]],
               !.imports = IF \E i \in 1..Len(f.decls) : f.decls[i].kind = "func"
                           THEN @ \cup InjectedImports ELSE @],
          panic |-> FALSE]

(***************************************************************************)
(* The analysis (lib): descriptors, declared functions, root functions and *)
(* the reverse call graph.                                                 *)
(***************************************************************************)
FuncDescriptor(pkg, recv, name, ftype) ==
    [PackageName |-> pkg, Receiver |-> recv, FunctionName |-> name,
     FuncType |-> ftype]

ZeroDescriptor == FuncDescriptor("", "", "", "")

TypeHash(fd) ==
    fd.PackageName \o fd.Receiver \o "." \o fd.FunctionName \o "." \o fd.FuncType

\* Contains(a, x): some element of a has the type hash of x
Contains(a, x) == \E i \in 1..Len(a) : TypeHash(a[i]) = TypeHash(x)

\* types.Type.String() of a signature without results: one "name type" per
\* parameter, so a field with two names gives its type twice, and a field
\* without a name gives the type alone
\* A named type prints qualified by the path of its package, whatever name
\* the file imports the package under.
typeName(type) ==
    IF type = "__atel_context.Context" THEN "context.Context" ELSE type

RECURSIVE JoinNamed(_, _)
JoinNamed(names, type) ==
    IF names = <<>> THEN typeName(type)
    ELSE Head(names) \o " " \o typeName(type)
         \o (IF Tail(names) = <<>> THEN ""
             ELSE ", " \o JoinNamed(Tail(names), type))

RECURSIVE JoinFields(_)
JoinFields(params) ==
    IF params = <<>> THEN ""
    ELSE JoinNamed(Head(params).names, Head(params).type)
         \o (IF Tail(params) = <<>> THEN "" ELSE ", " \o JoinFields(Tail(params)))

TypeString(params) == "func(" \o JoinFields(params) \o ")"

\* the parameter types of a signature, one per parameter; types.Identical
\* compares these and not the parameter names
ParamTypes(params) ==
    ConcatAll([i \in 1..Len(params) |->
                 IF params[i].names = <<>> THEN <<typeName(params[i].type)>>
                 ELSE [k \in 1..Len(params[i].names) |->
                          typeName(params[i].type)]])

\* a node that is an *ast.FuncDecl, with a body or without one
isFuncDecl(d) == d.kind \in {"func", "extern"}

\* the nodes ast.Inspect hands to a visitor that looks at function
\* declarations and call expressions, in visiting order
RECURSIVE callsOf(_)
callsOf(ex) ==
    IF ex.e # "call" THEN <<>>
    ELSE <<ex>> \o ConcatAll([i \in 1..Len(ex.args) |-> callsOf(ex.args[i])])

stmtCalls(stmt) ==
    ConcatAll([i \in 1..Len(stmt.lhs) |-> callsOf(stmt.lhs[i])])
    \o ConcatAll([i \in 1..Len(stmt.rhs) |-> callsOf(stmt.rhs[i])])
    \o callsOf(stmt.x)

bodyCalls(body) ==
    LET each == ConcatAll([i \in 1..Len(body) |-> stmtCalls(body[i])])
    IN  [i \in 1..Len(each) |-> [ev |-> "call", d |-> FuncDecl("", "", <<>>, <<>>),
                                 c |-> each[i]]]

declNodes(d) ==
    CASE isFuncDecl(d)      -> <<[ev |-> "decl", d |-> d, c |-> NoExpr]>>
                               \o bodyCalls(d.body)
      [] d.kind = "funclit" -> bodyCalls(d.body)
      [] OTHER              -> <<>>

Inspect(f) == ConcatAll([i \in 1..Len(f.decls) |-> declNodes(f.decls[i])])

\* Whether a method declared with receiver declRecv is in the method set of
\* the type recvT: the method set of T holds the methods declared on T, the
\* method set of *T those declared on T and on *T.
inMethodSet(declRecv, recvT) ==
    declRecv # "" /\ (declRecv = recvT \/ "*" \o declRecv = recvT)

\* types.Implements(recv.Type(), t): every method of the interface is in
\* the method set of the receiver type with an identical signature;
\* parameter names play no part.  f is the tree the types were checked on.
Implements(f, recvT, iface) ==
    \A m \in 1..Len(iface.methods) :
       \E i \in 1..Len(f.decls) :
          /\ isFuncDecl(f.decls[i])
          /\ inMethodSet(f.decls[i].recv, recvT)
          /\ f.decls[i].name = iface.methods[m].name
          /\ ParamTypes(f.decls[i].params) = ParamTypes(iface.methods[m].params)

\* GetInterfaces: the interface types the package declares
GetInterfaces(f) == {i \in 1..Len(f.decls) : f.decls[i].kind = "iface"}

\* the orders in which a range over the map of interfaces may visit them
IterationOrders(S) ==
    {o \in [1..Cardinality(S) -> S] :
        \A i, j \in 1..Cardinality(S) : i # j => o[i] # o[j]}

\* one iteration order for every declaration that asks for its interface
AnalysisOrders(f) ==
    [{f.decls[i] : i \in 1..Len(f.decls)} -> IterationOrders(GetInterfaces(f))]

\* The loop keeps the interface it visits last among those the receiver
\* implements; interfaces is the map in the order of this iteration.  An
\* interface declared in the program is never the predeclared any, so isAny
\* excludes none of them, an interface without methods included.
getInterfaceNameForReceiver(f, interfaces, recvT) ==
    LET impl == {k \in 1..Len(interfaces) :
                    Implements(f, recvT, f.decls[interfaces[k]])}
    IN  IF impl = {} THEN ""
        ELSE "." \o f.pkg \o "."
             \o f.decls[interfaces[CHOOSE k \in impl :
                                      \A j \in impl : j <= k]].name

recvStrOf(d) == IF d.recv # "" THEN "." \o d.recv ELSE ""

\* ginfo.Defs[node.Name].Type().String(): the signature the type checker
\* recorded for the declaration d when it checked the tree f.  A pass that
\* edits the parameter list of d afterwards leaves this entry as it was.
declType(f, d) ==
    LET same == {i \in 1..Len(f.decls) : /\ isFuncDecl(f.decls[i])
                                         /\ f.decls[i].recv = d.recv
                                         /\ f.decls[i].name = d.name}
    IN  IF same = {} THEN TypeString(d.params)
        ELSE TypeString(f.decls[CHOOSE i \in same : \A j \in same : i <= j].params)

\* the parameter lists the tree f declares for the callee of the call c: of
\* the method of the interface type the selector is taken on, else of the
\* function or method of that name; none for a callee declared elsewhere
declaredParams(f, c) ==
    LET funcs   == {i \in 1..Len(f.decls) :
                      /\ isFuncDecl(f.decls[i])
                      /\ f.decls[i].name = c.sel
                      /\ IF c.fk = "ident" THEN f.decls[i].recv = ""
                         ELSE \/ inMethodSet(f.decls[i].recv, c.recvT)
                              \/ inMethodSet(c.recvT, f.decls[i].recv)}
        ifaces  == {i \in GetInterfaces(f) :
                      /\ c.fk # "ident"
                      /\ f.pkg \o "." \o f.decls[i].name = c.recvT}
        methods == UNION {{<<i, m>> : m \in {k \in 1..Len(f.decls[i].methods) :
                                                f.decls[i].methods[k].name = c.sel}}
                          : i \in ifaces}
    IN  IF methods # {}
        THEN {f.decls[im[1]].methods[im[2]].params : im \in methods}
        ELSE {f.decls[i].params : i \in funcs}

\* ginfo.Uses[ident].Type().String() of the callee of the call c: the
\* signature the tree f declares for it, and the type the call carries for
\* a callee declared elsewhere
usesType(f, c) ==
    IF declaredParams(f, c) = {} THEN c.ftype
    ELSE TypeString(CHOOSE params \in declaredParams(f, c) : TRUE)

\* the descriptor buildCallGraph and ContextPropagationPass give a
\* declaration; f is the tree the types were checked on
declDescriptor(f, d) ==
    FuncDescriptor(f.pkg, recvStrOf(d), d.name, declType(f, d))

\* the descriptor findRootFunctions gives a declaration
rootDescriptor(f, d, interfaces) ==
    LET recvInterface ==
            IF d.recv # "" THEN getInterfaceNameForReceiver(f, interfaces, d.recv)
            ELSE ""
    IN  IF recvInterface # ""
        THEN FuncDescriptor(f.pkg, recvInterface, d.name, declType(f, d))
        ELSE declDescriptor(f, d)

RECURSIVE findRootFunctionsFrom(_, _, _, _, _)
findRootFunctionsFrom(f, nodes, currentFun, rootFunctions, orders) ==
    IF nodes = <<>> THEN rootFunctions
    ELSE LET n == Head(nodes)
         IN  IF n.ev = "decl"
             THEN findRootFunctionsFrom(f, Tail(nodes),
                                        rootDescriptor(f, n.d, orders[n.d]),
                                        rootFunctions, orders)
             ELSE IF n.c.fk \in {"sel", "selx"} /\ n.c.sel = "AutotelEntryPoint"
                  THEN findRootFunctionsFrom(f, Tail(nodes), currentFun,
                                             Append(rootFunctions, currentFun),
                                             orders)
                  ELSE findRootFunctionsFrom(f, Tail(nodes), currentFun,
                                             rootFunctions, orders)

\* the descriptors findRootFunctions may give a declaration, over the
\* iteration orders of the map of interfaces
rootDescriptors(f, d) ==
    {rootDescriptor(f, d, o) : o \in IterationOrders(GetInterfaces(f))}

\* The walkers visit the tree f as it is now and read every type from
\* tinfo, the tree as LoadProgram type-checked it.
findRootFunctions(f, tinfo, orders) ==
    findRootFunctionsFrom(tinfo, Inspect(f), ZeroDescriptor, <<>>, orders)

findFuncDecls(f, tinfo, orders) ==
    UNION {LET d == f.decls[i]
               recvInterface ==
                   IF d.recv # ""
                   THEN getInterfaceNameForReceiver(tinfo, orders[d], d.recv)
                   ELSE ""
           IN  (IF recvInterface # ""
                THEN {FuncDescriptor(tinfo.pkg, recvInterface, d.name,
                                     declType(tinfo, d))}
                ELSE {})
               \cup {declDescriptor(tinfo, d)}
           : i \in {k \in 1..Len(f.decls) : isFuncDecl(f.decls[k])}}

\* Whether the type checker resolved the callee of a call, and the
\* descriptor the walkers build for it: an identifier needs a type in Uses,
\* a selector needs an entry in Selections.
resolves(c) ==
    \/ c.fk = "ident" /\ c.ftype # NoType
    \/ c.fk \in {"sel", "selx"} /\ c.recvT # ""

funcCallOf(tinfo, c) ==
    IF c.fk = "ident"
    THEN FuncDescriptor(tinfo.pkg, "", c.sel, usesType(tinfo, c))
    ELSE FuncDescriptor(tinfo.pkg, "." \o c.recvT, c.sel,
                        IF usesType(tinfo, c) = NoType THEN ""
                        ELSE usesType(tinfo, c))

callersOf(graph, fun) == IF fun \in DOMAIN graph THEN graph[fun] ELSE <<>>

addEdge(graph, funcCall, currentFun) ==
    [k \in DOMAIN graph \cup {funcCall} |->
        IF k = funcCall THEN Append(callersOf(graph, funcCall), currentFun)
        ELSE graph[k]]

addFuncCallToCallGraphAgain(funcCall, currentFun, funcDecls, graph) ==
    IF funcCall \in funcDecls
    THEN addEdge(graph, funcCall, currentFun)
    ELSE graph

addFuncCallToCallGraphUnchecked(funcCall, currentFun, funcDecls, graph) ==
    IF ~Contains(callersOf(graph, funcCall), currentFun)
    THEN addEdge(graph, funcCall, currentFun)
    ELSE graph

addFuncCallToCallGraph(funcCall, currentFun, funcDecls, graph) ==
    IF ~Contains(callersOf(graph, funcCall), currentFun) /\ funcCall \in funcDecls
    THEN addEdge(graph, funcCall, currentFun)
    ELSE graph

RECURSIVE buildCallGraphFrom(_, _, _, _, _)
buildCallGraphFrom(f, nodes, currentFun, funcDecls, graph) ==
    IF nodes = <<>> THEN graph
    ELSE LET n == Head(nodes)
         IN  IF n.ev = "decl"
             THEN buildCallGraphFrom(f, Tail(nodes), declDescriptor(f, n.d),
                                     funcDecls, graph)
             ELSE IF resolves(n.c)
                  THEN buildCallGraphFrom(f, Tail(nodes), currentFun, funcDecls,
                          addFuncCallToCallGraph(funcCallOf(f, n.c),
                                                 currentFun, funcDecls, graph))
                  ELSE buildCallGraphFrom(f, Tail(nodes), currentFun, funcDecls,
                                          graph)

buildCallGraph(f, tinfo, funcDecls, graph) ==
    buildCallGraphFrom(tinfo, Inspect(f), ZeroDescriptor, funcDecls, graph)

(***************************************************************************)
(* ContextPropagationPass (lib), the version that asks for a path to the   *)
(* first root.                                                             *)
(***************************************************************************)

\* isPath(callGraph, current, goal, visited): depth-first search along the
\* caller lists; visited is shared by the whole search.  The result carries
\* the visited set back to the caller's loop.
RECURSIVE isPathFrom(_, _, _, _)
RECURSIVE isPathAmong(_, _, _, _)
isPathFrom(callGraph, current, goal, visited) ==
    IF current = goal THEN [found |-> TRUE, visited |-> visited]
    ELSE isPathAmong(callGraph, callersOf(callGraph, current), goal, visited)

isPathAmong(callGraph, children, goal, visited) ==
    IF children = <<>> THEN [found |-> FALSE, visited |-> visited]
    ELSE IF Head(children) \in visited
         THEN isPathAmong(callGraph, Tail(children), goal, visited)
         ELSE LET r == isPathFrom(callGraph, Head(children), goal,
                                  visited \cup {Head(children)})
              IN  IF r.found THEN r
                  ELSE isPathAmong(callGraph, Tail(children), goal, r.visited)

isPath(callGraph, current, goal) == isPathFrom(callGraph, current, goal, {}).found

isFunPartOfCallGraph(fun, callgraph) ==
    \E k \in DOMAIN callgraph :
       \/ TypeHash(k) = TypeHash(fun)
       \/ \E i \in 1..Len(callgraph[k]) : TypeHash(fun) = TypeHash(callgraph[k][i])

ctxArg == Ident("__atel_child_tracing_ctx")
ctxField == Field(<<"__atel_tracing_ctx">>, "__atel_context.Context")
contextTodo == SelCall("__atel_context", "TODO", "", NoType, <<>>)

\* the *ast.FuncDecl case: does the declaration get the context parameter
gainsContext(fun, roots, callgraph) ==
    /\ isFunPartOfCallGraph(fun, callgraph)
    /\ ~Contains(roots, fun)
    /\ isPath(callgraph, fun, roots[1])

\* emitEmptyContext: the argument put in front of the call's arguments
emitEmptyContext(currentFun, roots, callgraph) ==
    IF currentFun # ZeroDescriptor /\ isPath(callgraph, currentFun, roots[1])
    THEN ctxArg
    ELSE contextTodo

\* emitCallExpr and the selector branch of the *ast.CallExpr case: does the
\* call get an argument
callGetsContext(tinfo, c, roots, funcDecls, callgraph) ==
    /\ resolves(c)
    /\ funcCallOf(tinfo, c) \in funcDecls
    /\ isPath(callgraph, funcCallOf(tinfo, c), roots[1])

RECURSIVE propagateCall(_, _, _, _, _, _)
propagateCall(tinfo, ex, currentFun, roots, funcDecls, callgraph) ==
    IF ex.e # "call" THEN ex
    ELSE LET inner == [i \in 1..Len(ex.args) |->
                          propagateCall(tinfo, ex.args[i], currentFun, roots,
                                        funcDecls, callgraph)]
         IN  IF callGetsContext(tinfo, ex, roots, funcDecls, callgraph)
             THEN [ex EXCEPT !.args =
                      <<emitEmptyContext(currentFun, roots, callgraph)>> \o inner]
             ELSE [ex EXCEPT !.args = inner]

propagateStmt(tinfo, stmt, currentFun, roots, funcDecls, callgraph) ==
    [stmt EXCEPT
       !.lhs = [i \in 1..Len(stmt.lhs) |->
                  propagateCall(tinfo, stmt.lhs[i], currentFun, roots, funcDecls,
                                callgraph)],
       !.rhs = [i \in 1..Len(stmt.rhs) |->
                  propagateCall(tinfo, stmt.rhs[i], currentFun, roots, funcDecls,
                                callgraph)],
       !.x   = propagateCall(tinfo, stmt.x, currentFun, roots, funcDecls, callgraph)]

\* currentFun when the walk enters declaration i: the last function
\* declaration before it, with a body or without (it is never reset), the
\* zero value if there is none
RECURSIVE currentFunAt(_, _, _)
currentFunAt(f, tinfo, i) ==
    IF i = 0 THEN ZeroDescriptor
    ELSE IF isFuncDecl(f.decls[i]) THEN declDescriptor(tinfo, f.decls[i])
         ELSE currentFunAt(f, tinfo, i - 1)

propagateDecl(f, tinfo, i, roots, funcDecls, callgraph) ==
    LET d   == f.decls[i]
        cur == currentFunAt(f, tinfo, i)
        body == [k \in 1..Len(d.body) |->
                   propagateStmt(tinfo, d.body[k], cur, roots, funcDecls, callgraph)]
    IN  IF isFuncDecl(d)
        THEN [d EXCEPT !.params = IF gainsContext(cur, roots, callgraph)
                                  THEN <<ctxField>> \o @ ELSE @,
                       !.body = body]
        ELSE IF d.kind = "funclit" THEN [d EXCEPT !.body = body]
        ELSE d

\* Execute and the addImports call that follows it in the pass engine
ContextPropagationPass_Execute(f, tinfo, roots, funcDecls, callgraph) ==
    LET decls == [i \in 1..Len(f.decls) |->
                    propagateDecl(f, tinfo, i, roots, funcDecls, callgraph)]
    IN  [f EXCEPT !.decls = decls,
                  !.imports = IF decls # f.decls
                              THEN @ \cup {Import("__atel_context", "context")}
                              ELSE @]

(***************************************************************************)
(* Idle values of the parts of the state a specification does not use.     *)
(***************************************************************************)
NoFile == [pkg |-> "", decls |-> <<>>, imports |-> {}]
EmptyGraph == [k \in {} |-> <<>>]

IdleAst  == file = NoFile /\ orig = NoFile /\ prev = NoFile /\ pc = "idle"
IdleAna  == /\ RootFunctions = <<>> /\ FuncDecls = {} /\ Callgraph = EmptyGraph
            /\ GInfo = NoFile
Running == [status |-> "running", files |-> <<>>, err |-> "none"]
NotCalled == [status |-> "idle", files |-> <<>>, err |-> "none"]
IdleExec == /\ disk = EmptyGraph /\ cursor = 0 /\ passCalls = <<>>
            /\ renames = <<>> /\ result = NotCalled
            /\ debug = FALSE /\ selected = {}
IdleTool == /\ argv = <<>> /\ argv0 = <<>> /\ tpc = "idle" /\ destPath = ""
            /\ tpkg = "" /\ pending = EmptyGraph /\ trace = <<>>
            /\ outdir = EmptyGraph /\ rewritten = {} /\ parseFailed = {}
            /\ compiled = <<>> /\ rewriter = "none"
IdleRt   == /\ slots = <<>> /\ live = {} /\ own = <<>> /\ parent = <<>>
IdleLoad == mutex = 0 /\ ginfo = <<>> /\ info = <<>> /\ cb = <<>>
IdleCmd  == mode = "none" /\ cpc = <<>> /\ clog = <<>> /\ cerr = "none"
IdleSrv  == /\ fileOffset = 0 /\ logSize = 0 /\ handlers = <<>>
            /\ responses = <<>> /\ maxOffset = 0
IdleDrv  == /\ osArgs = <<>> /\ fsys = EmptyGraph /\ dpc = "idle"
            /\ dpaths = <<>> /\ dchecked = 0 /\ dsteps = <<>> /\ derr = "none"
IdleIfc  == InterfaceImplMapping = EmptyGraph
IdleAux  == /\ IdleTool /\ IdleRt /\ IdleLoad /\ IdleCmd /\ IdleSrv /\ IdleDrv
            /\ IdleIfc

(***************************************************************************)
(* The pruner on files that hold synthetic artifacts of every kind.        *)
(***************************************************************************)
FuncT == "func()"

DirtyFields ==
    {Field(<<"x">>, "int"),
     Field(<<"__atel_tracing_ctx">>, "__atel_context.Context"),
     Field(<<"__atel_a", "__atel_b">>, "int")}

DirtyStmts ==
    {AssignStmt(<<Ident("x")>>, <<Ident("y")>>),
     AssignStmt(<<Ident("__atel_a")>>, <<IdentCall("compute", FuncT, <<>>)>>),
     AssignStmt(<<Ident("_")>>, <<Ident("__atel_a")>>),
     AssignStmt(<<Ident("__atel_a")>>, <<Ident("__atel_b")>>),
     ExprStmt(SelCall("__atel_otel", "SetTracerProvider", "", NoType,
                      <<OtherExpr("tp")>>)),
     DeferStmt(SelCall("rtlib", "Shutdown", "", NoType, <<Ident("__atel_ts")>>)),
     DeferStmt(SelCall("__atel_span", "End", "", NoType, <<>>)),
     ExprStmt(IdentCall("work", FuncT,
                <<Ident("__atel_a"), Ident("__atel_b"), Ident("x"),
                  SelCall("__atel_context", "TODO", "", NoType, <<>>),
                  IdentCall("inner", FuncT, <<Ident("__atel_ctx"), Ident("y")>>)>>))}

DirtyFile(params, body) ==
    [pkg   |-> "main",
     decls |-> <<InterfaceSpec("I", <<Method("M", params)>>),
                 FuncDecl("work", "", params, body),
                 VarFuncLit("lit", <<>>, body),
                 ExternFuncDecl("ext", params)>>,
     imports |-> {Import("", "fmt"), Import("__atel_context", "context")}]

InitPrune ==
    /\ \E params \in SeqsUpTo(DirtyFields, MaxFields),
          body \in SeqsUpTo(DirtyStmts, MaxStmts) :
            file = DirtyFile(params, body)
    /\ orig = file
    /\ prev = file
    /\ pc = "dirty"
    /\ IdleAna
    /\ IdleExec
    /\ IdleAux

\* One run of the pruning rewriter over the file.  A panic ends the process
\* before anything is written back.
Prune ==
    /\ pc \in {"dirty", "pruned", "instrumented"}
    /\ LET r == OtelPruner_Rewrite(file)
       IN  IF r.panic
           THEN /\ pc' = "panic"
                /\ file' = file
           ELSE /\ pc' = CASE pc = "dirty" -> "pruned"
                            [] pc = "pruned" -> "repruned"
                            [] OTHER -> "restored"
                /\ file' = r.file
    /\ prev' = file
    /\ UNCHANGED <<orig, anaVars, execVars, auxVars>>

NextPrune == Prune

SpecPrune == InitPrune /\ [][NextPrune]_vars

\* C2: pruning an already pruned file changes nothing: parameters,
\* statements, call arguments, interface method signatures and imports of
\* prune(prune(P)) are those of prune(P).
PruneIsReentrant == pc = "repruned" => file = prev

\* a file the first pass changed has been pruned a second time
PruneIsReentrantWitness == pc = "repruned" /\ file # orig


(***************************************************************************)
(* The injecting passes on programs that were never instrumented.  A       *)
(* program is one file of package main: an interface I with method M, a    *)
(* function literal ahead of every function, main, doWork(n int), a        *)
(* function literal after doWork, and the method M of T, which implements  *)
(* I.  The bodies are filled with calls.                                   *)
(***************************************************************************)
MaxCalls == 3       \* call statements of a program, over all bodies

DoWorkParams == <<Field(<<"n">>, "int")>>

CleanStmts ==
    {ExprStmt(IdentCall("doWork", TypeString(DoWorkParams), <<Ident("x")>>)),
     ExprStmt(SelCall("t", "M", "main.T", FuncT, <<>>)),
     ExprStmt(SelCall("i", "M", "main.I", FuncT, <<>>)),
     ExprStmt(SelCall("rtlib", "AutotelEntryPoint", "", NoType, <<>>)),
     ExprStmt(IdentCall("println", "invalid type", <<>>)),
     ExprStmt(SelCall("otel", "SetTracerProvider", "", NoType, <<OtherExpr("tp")>>))}

CleanFile(b0, bMain, bWork, b1, bM) ==
    [pkg   |-> "main",
     decls |-> <<InterfaceSpec("I", <<Method("M", <<>>)>>),
                 VarFuncLit("lit0", <<>>, b0),
                 FuncDecl("main", "", <<>>, bMain),
                 FuncDecl("doWork", "", DoWorkParams, bWork),
                 VarFuncLit("lit1", <<>>, b1),
                 FuncDecl("M", "main.T", <<>>, bM)>>,
     imports |-> {Import("", "fmt")}]

InitInject ==
    /\ \E s \in SeqsUpTo(CleanStmts, MaxCalls) :
         \E c1, c2, c3, c4 \in 0..Len(s) :
            /\ c1 <= c2 /\ c2 <= c3 /\ c3 <= c4
            /\ file = CleanFile(SubSeq(s, 1, c1), SubSeq(s, c1 + 1, c2),
                                SubSeq(s, c2 + 1, c3), SubSeq(s, c3 + 1, c4),
                                SubSeq(s, c4 + 1, Len(s)))
    /\ orig = file
    /\ prev = file
    /\ pc = "loaded"
    /\ RootFunctions = <<>>
    /\ FuncDecls = {}
    /\ Callgraph = EmptyGraph
    /\ GInfo = file
    /\ IdleExec
    /\ IdleAux

\* makeAnalysis: roots, declared functions and the reverse call graph
MakeAnalysis ==
    /\ pc = "loaded"
    /\ \E rootOrders, declOrders \in AnalysisOrders(file) :
          /\ RootFunctions' = findRootFunctions(file, GInfo, rootOrders)
          /\ FuncDecls' = findFuncDecls(file, GInfo, declOrders)
          /\ Callgraph' = buildCallGraph(file, GInfo,
                                         findFuncDecls(file, GInfo, declOrders),
                                         EmptyGraph)
    /\ pc' = "analysed"
    /\ UNCHANGED <<file, orig, prev, GInfo, execVars, auxVars>>

\* the context propagation pass; the pass engine runs no pass without a root
Propagate ==
    /\ pc = "analysed"
    /\ RootFunctions # <<>>
    /\ file' = ContextPropagationPass_Execute(file, GInfo, RootFunctions, FuncDecls,
                                              Callgraph)
    /\ prev' = file
    /\ pc' = "propagated"
    /\ UNCHANGED <<orig, anaVars, execVars, auxVars>>

\* the instrumentation pass
Instrument ==
    /\ \/ pc = "propagated"
       \/ pc = "analysed" /\ RootFunctions = <<>>
    /\ LET r == BasicRewriter_Rewrite(file)
       IN  IF r.panic THEN pc' = "panic" /\ file' = file
           ELSE pc' = "instrumented" /\ file' = r.file
    /\ prev' = file
    /\ UNCHANGED <<orig, anaVars, execVars, auxVars>>

NextInject == MakeAnalysis \/ Propagate \/ Instrument \/ Prune

SpecInject == InitInject /\ [][NextInject]_vars

(***************************************************************************)
(* Notions the properties are stated with, defined on the trees and the    *)
(* graph themselves.                                                       *)
(***************************************************************************)
FuncIdx(f) == {i \in 1..Len(f.decls) : f.decls[i].kind = "func"}
BodyIdx(f) == {i \in 1..Len(f.decls) : f.decls[i].kind \in {"func", "funclit"}}

isMarkerCall(stmt) ==
    stmt.kind = "expr" /\ stmt.x.e = "call" /\ stmt.x.sel = "AutotelEntryPoint"

HasMarker(body) == \E k \in 1..Len(body) : isMarkerCall(body[k])

\* the functions from which a chain of caller lists leads to goal
RECURSIVE CallersClosure(_, _)
CallersClosure(graph, S) ==
    LET more == S \cup UNION {SeqToSet(graph[k]) : k \in S \cap DOMAIN graph}
    IN  IF more = S THEN S ELSE CallersClosure(graph, more)

Reaches(graph, fun, goal) == goal \in CallersClosure(graph, {fun})

InGraph(graph, fun) ==
    \/ fun \in DOMAIN graph
    \/ \E k \in DOMAIN graph : fun \in SeqToSet(graph[k])

\* C1: for a program without synthetic names and with at least one root,
\* instrumentation, context propagation and one pruning restore every
\* parameter list, body, argument list, interface signature and the imports.
RoundTripRestores ==
    (pc = "restored" /\ RootFunctions # <<>>) => file = orig

\* the names the analysis may list a declaration under in RootFunctions:
\* its own descriptor and, for a method of a type that implements an
\* interface, the descriptor keyed by the interface
RootNames(i) ==
    {declDescriptor(GInfo, orig.decls[i])} \cup rootDescriptors(GInfo, orig.decls[i])

\* declaration i is one of the roots the analysis found
IsRootDecl(i) == \E k \in 1..Len(RootFunctions) : RootFunctions[k] \in RootNames(i)

\* C4: the declarations that gained the leading context parameter are
\* exactly the call-graph members that are no roots and have a path to the
\* first root; every other signature, interface methods included, is as before.
ContextParamExactlyOnPath ==
    pc = "propagated" =>
       \A i \in 1..Len(file.decls) :
          LET d   == prev.decls[i]
              fun == declDescriptor(GInfo, d)
          IN  IF /\ d.kind = "func"
                 /\ InGraph(Callgraph, fun)
                 /\ ~IsRootDecl(i)
                 /\ Reaches(Callgraph, fun, RootFunctions[1])
              THEN file.decls[i].params = <<ctxField>> \o d.params
              ELSE /\ file.decls[i].params = d.params
                   /\ file.decls[i].methods = d.methods

\* C5: the instrumentation pass leaves the body of a function declaration
\* untouched when the function is neither caller nor callee of any edge.
NonMembersUntouched ==
    pc = "instrumented" =>
       \A i \in FuncIdx(file) :
          ~InGraph(Callgraph, declDescriptor(orig, orig.decls[i]))
             => file.decls[i].body = prev.decls[i].body

\* C6: a call of M through a value of interface type I inside function F
\* puts F among the callers of the descriptor of T.M for every T
\* implementing I.
InterfaceWidening ==
    pc = "analysed" =>
       \A i \in FuncIdx(file) : \A k \in 1..Len(file.decls[i].body) :
          \A m \in FuncIdx(file) :
             LET c == file.decls[i].body[k].x
                 T == file.decls[m]
             IN  (/\ c.e = "call" /\ c.recvT # "" /\ T.recv # ""
                  /\ \E o \in IterationOrders(GetInterfaces(file)) :
                        getInterfaceNameForReceiver(file, o, T.recv)
                           = "." \o c.recvT
                  /\ T.name = c.sel)
                 => declDescriptor(file, file.decls[i])
                       \in SeqToSet(callersOf(Callgraph, declDescriptor(file, T)))

\* C7: every callee key of the built call graph is a declared function; a
\* call of a builtin or of a function of another package adds no key.
CalleesAreDeclared ==
    pc # "loaded" =>
       /\ DOMAIN Callgraph \subseteq FuncDecls
       /\ \A k \in DOMAIN Callgraph :
             /\ k.FunctionName \in {"main", "doWork", "M"}
             /\ \E i \in FuncIdx(orig) :
                   /\ orig.decls[i].name = k.FunctionName
                   /\ TypeString(orig.decls[i].params) = k.FuncType

\* the graph has an edge and the program calls a builtin and an outside function
CalleesAreDeclaredWitness ==
    /\ pc = "analysed"
    /\ Callgraph # EmptyGraph
    /\ \E i \in BodyIdx(file) : \E k \in 1..Len(file.decls[i].body) :
          file.decls[i].body[k].x.sel = "println"
    /\ \E i \in BodyIdx(file) : \E k \in 1..Len(file.decls[i].body) :
          file.decls[i].body[k].x.sel = "SetTracerProvider"

\* the part a statement plays in a preamble
Role(stmt) ==
    CASE stmt.kind = "assign" /\ stmt.rhs[1].sel = "NewTracingState"
            /\ stmt.lhs = <<Ident("__atel_ts")>>                 -> "tracer state"
      [] stmt.kind = "defer" /\ stmt.x.sel = "Shutdown"
            /\ stmt.x.args = <<Ident("__atel_ts")>>              -> "deferred shutdown"
      [] stmt.kind = "expr" /\ stmt.x.sel = "SetTracerProvider"
            /\ stmt.x.x = "__atel_otel"                          -> "provider registration"
      [] stmt.kind = "assign" /\ stmt.rhs[1].sel = "Background"
            /\ stmt.lhs = <<Ident("__atel_ctx")>>                -> "background context"
      [] stmt.kind = "assign" /\ stmt.rhs[1].sel = "Start"
            /\ stmt.lhs = <<Ident("__atel_child_tracing_ctx"),
                            Ident("__atel_span")>>               -> "span start"
      [] stmt.kind = "assign" /\ stmt.lhs = <<Ident("_")>>
            /\ stmt.rhs = <<Ident("__atel_child_tracing_ctx")>>  -> "blank use of child context"
      [] stmt.kind = "defer" /\ stmt.x.sel = "End"
            /\ stmt.x.x = "__atel_span"                          -> "deferred span end"
      [] stmt.kind = "expr" /\ stmt.x.sel = "InstrgenSetTls"
            /\ stmt.x.args = <<Ident("__atel_child_tracing_ctx")>> -> "slot storage"
      [] OTHER                                                   -> "other"

Roles(body, n) == [k \in 1..n |-> Role(body[k])]

PrependedWith(body, before, roles) ==
    /\ Len(body) = Len(before) + Len(roles)
    /\ Roles(body, Len(roles)) = roles
    /\ SubSeq(body, Len(roles) + 1, Len(body)) = before

\* the argument list a call statement had before and has after a pass
ArgsBefore(i, k) == prev.decls[i].body[k].x.args
ArgsAfter(i, k)  == file.decls[i].body[k].x.args
CalleeOf(i, k)   == funcCallOf(GInfo, prev.decls[i].body[k].x)
IsKnownCall(i, k) ==
    resolves(prev.decls[i].body[k].x) /\ CalleeOf(i, k) \in FuncDecls

\* C8: every call of a declared function gets a new first
\* argument, the context identifier inside a function declaration with a
\* path to the root and an empty context literal everywhere else.
EveryKnownCallGetsContext ==
    pc = "propagated" =>
       \A i \in BodyIdx(prev) : \A k \in 1..Len(prev.decls[i].body) :
          IsKnownCall(i, k) =>
             ArgsAfter(i, k) =
                <<IF /\ prev.decls[i].kind = "func"
                     /\ Reaches(Callgraph, declDescriptor(prev, prev.decls[i]),
                                RootFunctions[1])
                  THEN ctxArg ELSE contextTodo>> \o ArgsBefore(i, k)

\* C9: every function declaration that is a root gets seven statements in
\* this order: tracer state, deferred shutdown, provider registration,
\* background context, span start, slot storage, deferred span end; its
\* own statements follow unchanged.
RootPreambleSevenStatements ==
    pc = "instrumented" =>
       \A i \in FuncIdx(file) :
          IsRootDecl(i) =>
             PrependedWith(file.decls[i].body, prev.decls[i].body,
                <<"tracer state", "deferred shutdown", "provider registration",
                  "background context", "span start", "slot storage",
                  "deferred span end">>)

\* C10: the root list holds exactly the declared functions whose body
\* contains the marker call.
RootsAreMarkerHolders ==
    pc = "analysed" =>
       LET holders == {i \in FuncIdx(file) : HasMarker(file.decls[i].body)}
           names(i) == {declDescriptor(file, file.decls[i])}
                       \cup rootDescriptors(file, file.decls[i])
       IN  /\ \A i \in holders : \E k \in 1..Len(RootFunctions) :
                 RootFunctions[k] \in names(i)
           /\ \A k \in 1..Len(RootFunctions) : \E i \in holders :
                 RootFunctions[k] \in names(i)

(***************************************************************************)
(* PackageAnalysis.Execute (lib): the pass engine over the files of the    *)
(* program.  A file on disk holds the text of the tree as loaded, the text *)
(* of a rewritten tree, or the beginning of a text whose printing failed.  *)
(***************************************************************************)
MaxFiles == 3       \* files of the program

FileNames == <<"a.go", "b.go", "c.go", "d.go", "e.go">>
Files == SubSeq(FileNames, 1, MaxFiles)

fileSuffix == "_pass_ctx"
sideFile(name) == name \o fileSuffix

\* os.Create and printer.Fprint on the side file; os.Rename over the original
written(d, name, text) ==
    [n \in DOMAIN d \cup {name} |-> IF n = name THEN text ELSE d[n]]
renamed(d, old, new) ==
    [n \in (DOMAIN d \ {old}) \cup {new} |-> IF n = new THEN d[old] ELSE d[n]]

\* if len(analysis.RootFunctions) == 0: print the tree as it is and go on
skipsPassNever(roots) == FALSE
skipsPass(roots) == Len(roots) = 0

\* if !analysis.Debug: rename the side file over the original
renamesAlways(dbg) == TRUE
renamesSideFile(dbg) == ~dbg

\* return nil, err
returnedErrorWithFiles(e) == [result EXCEPT !.status = "returned", !.err = e]
returnedError(e) == [status |-> "returned", files |-> <<>>, err |-> e]

InitExec ==
    /\ IdleAst
    /\ IdleAux
    /\ RootFunctions \in {<<>>, <<FuncDescriptor("main", "", "main", FuncT)>>}
    /\ FuncDecls = {}
    /\ Callgraph = EmptyGraph
    /\ GInfo = NoFile
    /\ disk = [n \in SeqToSet(Files) |-> "loaded"]
    /\ cursor = 1
    /\ passCalls = <<>>
    /\ renames = <<>>
    /\ result = Running
    /\ debug \in BOOLEAN
    /\ selected \in SUBSET SeqToSet(Files)

AtFile == result.status = "running" /\ cursor <= Len(Files)
AtSelected == AtFile /\ Files[cursor] \in selected

\* the file does not match the package pattern
ExecSkipFile ==
    /\ AtFile
    /\ Files[cursor] \notin selected
    /\ cursor' = cursor + 1
    /\ UNCHANGED <<astVars, anaVars, auxVars, disk, passCalls, renames, result, debug,
                   selected>>

\* createFile fails: return nil, err
ExecCreateFails ==
    /\ AtSelected
    /\ result' = returnedError("create")
    /\ UNCHANGED <<astVars, anaVars, auxVars, disk, cursor, passCalls, renames, debug,
                   selected>>

\* no roots: the tree is printed to the side file as it is
ExecPrintUnchanged ==
    /\ AtSelected
    /\ skipsPass(RootFunctions)
    /\ \/ /\ disk' = written(disk, sideFile(Files[cursor]), "loaded")
          /\ cursor' = cursor + 1
          /\ UNCHANGED result
       \/ /\ disk' = written(disk, sideFile(Files[cursor]), "incomplete")
          /\ result' = returnedError("print")
          /\ UNCHANGED cursor
    /\ UNCHANGED <<astVars, anaVars, auxVars, passCalls, renames, debug, selected>>

\* the pass runs on the tree, the tree is printed to the side file and,
\* outside debug mode, the side file is renamed over the original
ExecRunPass ==
    /\ AtSelected
    /\ ~skipsPass(RootFunctions)
    /\ passCalls' = Append(passCalls, Files[cursor])
    /\ \/ /\ disk' = written(disk, sideFile(Files[cursor]), "incomplete")
          /\ result' = returnedError("print")
          /\ UNCHANGED <<cursor, renames>>
       \/ /\ renamesSideFile(debug)
          /\ disk' = written(disk, sideFile(Files[cursor]), "rewritten")
          /\ result' = returnedError("rename")
          /\ UNCHANGED <<cursor, renames>>
       \/ /\ renamesSideFile(debug)
          /\ disk' = renamed(written(disk, sideFile(Files[cursor]), "rewritten"),
                             sideFile(Files[cursor]), Files[cursor])
          /\ renames' = Append(renames, Files[cursor])
          /\ cursor' = cursor + 1
          /\ result' = [result EXCEPT !.files = Append(@, Files[cursor])]
       \/ /\ ~renamesSideFile(debug)
          /\ disk' = written(disk, sideFile(Files[cursor]), "rewritten")
          /\ cursor' = cursor + 1
          /\ result' = [result EXCEPT !.files = Append(@, Files[cursor])]
          /\ UNCHANGED renames
    /\ UNCHANGED <<astVars, anaVars, auxVars, debug, selected>>

\* return fileNodeSet, nil
ExecReturn ==
    /\ result.status = "running"
    /\ cursor > Len(Files)
    /\ result' = [result EXCEPT !.status = "returned"]
    /\ UNCHANGED <<astVars, anaVars, auxVars, disk, cursor, passCalls, renames, debug,
                   selected>>

NextExec ==
    ExecSkipFile \/ ExecCreateFails \/ ExecPrintUnchanged \/ ExecRunPass
    \/ ExecReturn

SpecExec == InitExec /\ [][NextExec]_vars

\* C3 as stated: without roots no pass runs, nothing is renamed, every
\* original keeps its text, and the call returns without error.
NoRootsNoError ==
    RootFunctions = <<>> =>
       /\ passCalls = <<>>
       /\ renames = <<>>
       /\ \A n \in SeqToSet(Files) : disk[n] = "loaded"
       /\ result.status = "returned" => result.err = "none"

\* C3: without roots no pass runs, nothing is renamed and every original
\* keeps its text; the call returns without error unless creating or
\* printing a side file fails, and then it returns that error.
NoRootsNoRewrite ==
    RootFunctions = <<>> =>
       /\ passCalls = <<>>
       /\ renames = <<>>
       /\ \A n \in SeqToSet(Files) : disk[n] = "loaded"
       /\ result.status = "returned" =>
             /\ result.err \in {"none", "create", "print"}
             /\ result.err = "none" =>
                   \A n \in selected : disk[sideFile(n)] = "loaded"

\* a call without roots returned without error after two or more files
NoRootsNoRewriteWitness ==
    /\ RootFunctions = <<>>
    /\ result.status = "returned"
    /\ result.err = "none"
    /\ Cardinality(selected) >= 2

\* the files of the program after the one the loop is at
LaterFiles == {Files[i] : i \in {j \in 1..Len(Files) : j > cursor}}
EarlierSelected == {Files[i] : i \in {j \in 1..Len(Files) : j < cursor}} \cap selected

\* C11: when creating, printing or renaming a side file fails, Execute
\* returns that error with no file list; no later file is touched, and every
\* file replaced earlier in the call keeps its rewritten text.
ErrorAbortsWithoutRollback ==
    result.err # "none" =>
       /\ result.status = "returned"
       /\ result.files = <<>>
       /\ Files[cursor] \in selected
       /\ \A n \in LaterFiles :
             /\ disk[n] = "loaded"
             /\ sideFile(n) \notin DOMAIN disk
             /\ n \notin SeqToSet(passCalls)
       /\ \A n \in SeqToSet(renames) : disk[n] = "rewritten"
       /\ (RootFunctions # <<>> /\ ~debug) => SeqToSet(renames) = EarlierSelected

\* a rename failed after an earlier file had been replaced, with a later
\* file still to come
ErrorAbortsWitness ==
    /\ result.err = "rename"
    /\ renames # <<>>
    /\ LaterFiles \cap selected # {}

\* C20: in debug mode Execute writes the output of the pass to the side
\* file and never renames it, so every original keeps its text and the side
\* file of every processed file remains.
DebugKeepsIntermediateFiles ==
    debug =>
       /\ renames = <<>>
       /\ \A n \in SeqToSet(Files) : disk[n] = "loaded"
       /\ \A n \in EarlierSelected :
             /\ sideFile(n) \in DOMAIN disk
             /\ disk[sideFile(n)] =
                   IF RootFunctions = <<>> THEN "loaded" ELSE "rewritten"

\* a debug call with roots returned after running the pass on two files
DebugKeepsWitness ==
    /\ debug
    /\ result.status = "returned"
    /\ result.err = "none"
    /\ Len(passCalls) >= 2

(***************************************************************************)
(* The build-pipeline interceptor.  toolExecMain reads the compile command *)
(* line, collects the source files after -pack and hands them to           *)
(* analyzePackage, which parses, rewrites and serializes each file and     *)
(* substitutes the argument; executePass then runs the real compiler.      *)
(* analyzePackage works on the PackageObserver it constructs itself,       *)
(* rewriter := CommonRewriter{}.                                           *)
(***************************************************************************)
MaxArgs == 3        \* arguments after -pack, an -asmhdr pair not counted

strings_HasSuffix(s, suffix) ==
    /\ Len(s) >= Len(suffix)
    /\ SubSeq(s, Len(s) - Len(suffix) + 1, Len(s)) = suffix

lastSlash(s) ==
    LET at == {i \in 1..Len(s) : SubSeq(s, i, i) = "/"}
    IN  IF at = {} THEN 0 ELSE CHOOSE i \in at : \A j \in at : j <= i

\* filepath.Base and filepath.Dir on clean, non-empty paths
filepath_Base(s) == SubSeq(s, lastSlash(s) + 1, Len(s))
filepath_Dir(s) ==
    IF lastSlash(s) = 0 THEN "."
    ELSE IF lastSlash(s) = 1 THEN "/"
    ELSE SubSeq(s, 1, lastSlash(s) - 1)

withEntry(m, k, v) == [n \in DOMAIN m \cup {k} |-> IF n = k THEN v ELSE m[n]]
withoutEntry(m, k) == [n \in DOMAIN m \ {k} |-> m[n]]

\* the value toolExecMain holds for a flag when it reaches position upto:
\* the argument after the last occurrence of the flag before upto
flagValue(a, flag, upto) ==
    LET at == {i \in 1..Len(a) : i < upto /\ a[i] = flag}
    IN  IF at = {} THEN "" ELSE a[(CHOOSE i \in at : \A j \in at : j <= i) + 1]

\* if string(args[j]) == "-asmhdr" { j = j + 2 }
asmhdrSkip == 2

\* for j := i + 1; j < argsLen; j++ { ... files[filePath] = j }
\* args[j] after the skip panics when j is past the end of the vector
RECURSIVE scanFiles(_, _, _)
scanFiles(a, j, files) ==
    IF j > Len(a) THEN [files |-> files, panic |-> FALSE]
    ELSE LET k == IF a[j] = "-asmhdr" THEN j + asmhdrSkip ELSE j
         IN  IF k > Len(a) THEN [files |-> files, panic |-> TRUE]
             ELSE IF ~strings_HasSuffix(a[k], ".go")
                  THEN scanFiles(a, k + 1, files)
                  ELSE scanFiles(a, k + 1, withEntry(files, a[k], k))

packIndex(a) == CHOOSE i \in 1..Len(a) : a[i] = "-pack"
                                         /\ \A j \in 1..(i - 1) : a[j] # "-pack"

\* rewriter := CommonRewriter{}
CommonRewriter ==
    [id |-> "CommonRewriter", Replace |-> FALSE]
\* func (CommonRewriter) Inject(pkg string, filepath string) bool { return true }
Inject(rw, pkg, filePath) == TRUE
\* func (CommonRewriter) ReplaceSource(pkg string, filePath string) bool
ReplaceSource(rw) == rw.Replace

\* createFile(destPath + "/" + filename), filename := filepath.Base(filePath)
copyPathKeepingDir(dest, filePath) == dest \o "/" \o filePath
copyPath(dest, filePath) == dest \o "/" \o filepath_Base(filePath)
\* createFile(fset.File(file.Pos()).Name() + "tmp")
tmpPath(filePath) == filePath \o "tmp"

\* the text printer.Fprint writes for a tree
printed(rw, pkg, filePath) ==
    IF Inject(rw, pkg, filePath) THEN "rewritten" ELSE "copied"

\* the compile command lines of the model
SourceArgs == {"./a.go", "lib/b.go", "c.s", "d.go"}
HeaderArgs == {"go_asm.h", "asm_hdr.go"}
NoDuplicates(s) == \A i, j \in 1..Len(s) : i # j => s[i] # s[j]
InsertAt(s, k, pair) == SubSeq(s, 1, k) \o pair \o SubSeq(s, k + 1, Len(s))
Tails ==
    LET plain == {s \in SeqsUpTo(SourceArgs, MaxArgs) : NoDuplicates(s)}
    IN  plain \cup UNION {{InsertAt(s, k, <<"-asmhdr", h>>) :
                                k \in 0..Len(s), h \in HeaderArgs} : s \in plain}
CommandLine(pkg, tail) ==
    <<"compile", "-o", "/w/b001/_pkg_.a", "-p", pkg, "-pack">> \o tail

InitTool ==
    /\ IdleAst /\ IdleAna /\ IdleExec /\ IdleRt /\ IdleLoad /\ IdleCmd /\ IdleSrv
    /\ IdleDrv /\ IdleIfc
    /\ \E pkg \in {"main", "runtime"}, tail \in Tails :
          argv = CommandLine(pkg, tail)
    /\ argv0 = argv
    /\ tpc = "start"
    /\ destPath = ""
    /\ tpkg = ""
    /\ pending = EmptyGraph
    /\ trace = <<>>
    /\ outdir = EmptyGraph
    /\ rewritten = {}
    /\ parseFailed = {}
    /\ compiled = <<>>
    /\ rewriter = CommonRewriter

toolFrame == UNCHANGED <<astVars, anaVars, execVars, rtVars, loadVars, cmdVars,
                         srvVars, drvVars, ifcVars, argv0, rewriter>>

\* toolExecMain up to the call of analyzePackage
ToolScan ==
    /\ tpc = "start"
    /\ LET i == packIndex(argv)
           scan == scanFiles(argv, i + 1, EmptyGraph)
       IN  /\ destPath' = IF flagValue(argv, "-o", i) = "" THEN ""
                          ELSE filepath_Dir(flagValue(argv, "-o", i))
           /\ tpkg' = flagValue(argv, "-p", i)
           /\ IF scan.panic
              THEN tpc' = "panic" /\ pending' = pending
              ELSE tpc' = "analyze" /\ pending' = scan.files
    /\ UNCHANGED <<argv, trace, outdir, rewritten, parseFailed, compiled>>
    /\ toolFrame

\* one iteration of analyzePackage on a file the parser returned no tree
\* for: the error is logged and the nil tree goes on to the rewriter or the
\* printer, which dereference it, unless the copy cannot be created
AnalyzeNilFile ==
    /\ tpc = "analyze"
    /\ \E filePath \in DOMAIN pending, created \in BOOLEAN :
          /\ parseFailed' = parseFailed \cup {filePath}
          /\ pending' = withoutEntry(pending, filePath)
          /\ IF Inject(rewriter, tpkg, filePath) \/ ReplaceSource(rewriter) \/ created
             THEN /\ tpc' = "panic"
                  /\ trace' = Append(trace, "parse")
                  /\ outdir' =
                        IF ~Inject(rewriter, tpkg, filePath) /\ ~ReplaceSource(rewriter)
                        THEN withEntry(outdir, copyPath(destPath, filePath),
                                       "incomplete")
                        ELSE outdir
             ELSE /\ tpc' = "analyze"
                  /\ trace' = trace \o <<"parse", "create">>
                  /\ outdir' = outdir
    /\ UNCHANGED <<argv, destPath, tpkg, rewritten, compiled>>
    /\ toolFrame

\* one iteration of analyzePackage on a file the parser returned a tree
\* for.  With a replacing rewriter the tree is printed to <file>tmp and
\* renamed over the source; no failure ends the iteration and the argument
\* stays.  Otherwise the tree is printed to a copy in the destination
\* directory and the argument is substituted; a failure to create or print
\* is logged and ends the iteration.  ReplaceSource of the CommonRewriter
\* analyzePackage constructs is false, and its WriteExtraFiles, called last,
\* has an empty body.
AnalyzeFile ==
    /\ tpc = "analyze"
    /\ \E filePath \in DOMAIN pending, syntaxError, created, printOk,
          renamed_ \in BOOLEAN :
          LET copy == copyPath(destPath, filePath)
              done == created /\ printOk
              text == IF printOk THEN printed(rewriter, tpkg, filePath)
                      ELSE "incomplete"
          IN
          /\ parseFailed' = IF syntaxError THEN parseFailed \cup {filePath}
                            ELSE parseFailed
          /\ pending' = withoutEntry(pending, filePath)
          /\ rewritten' = IF Inject(rewriter, tpkg, filePath)
                          THEN rewritten \cup {filePath} ELSE rewritten
          /\ IF ReplaceSource(rewriter)
             THEN /\ created \/ (~printOk /\ ~renamed_)
                  /\ trace' = trace
                        \o (IF syntaxError THEN <<"parse">> ELSE <<>>)
                        \o (IF created THEN <<>> ELSE <<"create">>)
                        \o (IF printOk THEN <<>> ELSE <<"print">>)
                        \o (IF renamed_ THEN <<>> ELSE <<"rename">>)
                  /\ argv' = argv
                  /\ outdir' =
                        IF ~created THEN outdir
                        ELSE IF renamed_ THEN withEntry(outdir, filePath, text)
                        ELSE withEntry(outdir, tmpPath(filePath), text)
             ELSE /\ (~created => printOk) /\ renamed_
                  /\ trace' = trace
                        \o (IF syntaxError THEN <<"parse">> ELSE <<>>)
                        \o (IF created THEN <<>> ELSE <<"create">>)
                        \o (IF printOk THEN <<>> ELSE <<"print">>)
                  /\ argv' = IF done THEN [argv EXCEPT ![pending[filePath]] = copy]
                             ELSE argv
                  /\ outdir' = IF ~created THEN outdir
                               ELSE withEntry(outdir, copy, text)
    /\ UNCHANGED <<tpc, destPath, tpkg, compiled>>
    /\ toolFrame

\* executePass(args[0:]) once analyzePackage has visited every file
ToolExecute ==
    /\ tpc = "analyze"
    /\ DOMAIN pending = {}
    /\ compiled' = argv
    /\ tpc' = "executed"
    /\ UNCHANGED <<argv, destPath, tpkg, pending, trace, outdir, rewritten,
                   parseFailed>>
    /\ toolFrame

NextTool == ToolScan \/ AnalyzeNilFile \/ AnalyzeFile \/ ToolExecute
SpecTool == InitTool /\ [][NextTool]_vars

\* the argument positions a compile command line offers for rewriting: after
\* -pack, ending in .go, and not the header of an -asmhdr pair
SelectedPositions ==
    {p \in (packIndex(argv0) + 1)..Len(argv0) :
        strings_HasSuffix(argv0[p], ".go") /\ argv0[p - 1] # "-asmhdr"}
OutputDir == filepath_Dir(argv0[(CHOOSE i \in 1..Len(argv0) : argv0[i] = "-o") + 1])
CopyOf(p) == OutputDir \o "/" \o filepath_Base(argv0[p])
CopyComplete(p) == /\ CopyOf(p) \in DOMAIN outdir
                   /\ outdir[CopyOf(p)] \in {"rewritten", "copied"}
PositionOf(filePath) == CHOOSE p \in 1..Len(argv0) : argv0[p] = filePath

\* C12: a file that fails to parse is logged and skipped: it is not passed
\* to the rewriter, not serialized, and its argument is not substituted;
\* the other files of the package are still processed.
ParseFailureSkipsFile ==
    /\ \A f \in parseFailed :
          /\ f \notin rewritten
          /\ copyPath(destPath, f) \notin DOMAIN outdir
          /\ argv[PositionOf(f)] = f
    /\ parseFailed # {} => tpc # "panic"

\* C13 as stated: when the compiler is invoked after analysis with a
\* non-replacing rewriter, every selected position holds the path of the
\* copy and every other position is unchanged.
EverySelectedArgSubstituted ==
    (tpc = "executed" /\ ~ReplaceSource(rewriter)) =>
       /\ Len(compiled) = Len(argv0)
       /\ \A p \in 1..Len(argv0) :
             compiled[p] = IF p \in SelectedPositions THEN CopyOf(p)
                           ELSE argv0[p]

\* C13: when the compiler is invoked after analysis with a non-replacing
\* rewriter, every selected position whose copy was created and printed
\* holds the path of the copy (directory of the -o argument plus the base
\* name); every other position, a selected one whose copy failed included,
\* is unchanged.
SelectedArgsSubstitutedOnSuccess ==
    (tpc = "executed" /\ ~ReplaceSource(rewriter)) =>
       /\ Len(compiled) = Len(argv0)
       /\ \A p \in 1..Len(argv0) :
             compiled[p] = IF p \in SelectedPositions /\ CopyComplete(p)
                           THEN CopyOf(p) ELSE argv0[p]

\* the compiler ran on a command line with an -asmhdr pair whose header
\* ends in .go, one file substituted from a subdirectory and one selected
\* file whose copy failed
SelectedArgsWitness ==
    /\ tpc = "executed"
    /\ ~ReplaceSource(rewriter)
    /\ \E p \in 1..Len(argv0) : argv0[p] = "asm_hdr.go" /\ compiled[p] = argv0[p]
    /\ \E p \in SelectedPositions :
          argv0[p] = "lib/b.go" /\ compiled[p] = "/w/b001/b.go"
    /\ \E p \in SelectedPositions : ~CopyComplete(p)

(***************************************************************************)
(* The accessor file.  RuntimeRewriter.WriteExtraFiles(pkg, destPath)      *)
(* creates instrgen_tls.go in the destination directory and writes the     *)
(* text of the two accessors to it.  analyzePackage does not call it: the  *)
(* observer it constructs is the CommonRewriter.  The method is exported,  *)
(* and here it is called on its own on a destination directory.            *)
(***************************************************************************)
\* the text of the file; the first declaration has no parameter list
ctx_propagation ==
    "package runtime\n\nfunc InstrgenGetTls interface{} {\n"
    \o "        return getg().m.curg._tls_instrgen\n}\n\n"
    \o "func InstrgenSetTls(tls interface{}) {\n"
    \o "        getg().m.curg._tls_instrgen = tls\n}\n"

tlsFile(dest) == dest \o "/" \o "instrgen_tls.go"

\* os.Create truncates or creates the file, log.Fatal ends the process when
\* it fails; the result of WriteString is not looked at
RuntimeRewriter_WriteExtraFiles(dir, pkg, dest, created, stored) ==
    IF ~created THEN [dir |-> dir, fatal |-> TRUE]
    ELSE [dir |-> withEntry(dir, tlsFile(dest),
                            IF stored THEN ctx_propagation ELSE "incomplete"),
          fatal |-> FALSE]

DestPaths == {"/w/b001", "/w/b002", "."}
InitExtraFiles ==
    /\ IdleAst /\ IdleAna /\ IdleExec /\ IdleRt /\ IdleLoad /\ IdleCmd /\ IdleSrv
    /\ IdleDrv /\ IdleIfc
    /\ argv = <<>> /\ argv0 = <<>>
    /\ tpc = "call"
    /\ destPath \in DestPaths
    /\ tpkg \in {"main", "runtime"}
    /\ pending = EmptyGraph
    /\ trace = <<>>
    /\ outdir \in UNION {[S -> {"rewritten", "copied", "incomplete"}] :
                            S \in SUBSET {tlsFile(destPath),
                                          copyPath(destPath, "./a.go"),
                                          copyPath(destPath, "d.go")}}
    /\ rewritten = {}
    /\ parseFailed = {}
    /\ compiled = <<>>
    /\ rewriter = "RuntimeRewriter"

\* RuntimeRewriter{}.WriteExtraFiles(tpkg, destPath)
WriteExtraFiles ==
    /\ tpc = "call"
    /\ \E created, stored \in BOOLEAN :
          LET r == RuntimeRewriter_WriteExtraFiles(outdir, tpkg, destPath,
                                                   created, stored)
          IN  /\ outdir' = r.dir
              /\ tpc' = IF r.fatal THEN "fatal" ELSE "returned"
    /\ UNCHANGED <<argv, destPath, tpkg, pending, trace, rewritten, parseFailed,
                   compiled>>
    /\ toolFrame

NextExtraFiles == WriteExtraFiles
SpecExtraFiles == InitExtraFiles /\ [][NextExtraFiles]_vars

(***************************************************************************)
(* The goroutine-local slot of the patched runtime.  RuntimeRewriter adds   *)
(* the field _tls_instrgen to the struct g and makes newproc1 copy the      *)
(* field of the spawning g into the g it returns.  WriteExtraFiles writes   *)
(* the text of the accessors to instrgen_tls.go; InstrgenSetTls stores its  *)
(* argument in the field of the g that executes it, and a read of the slot  *)
(* is a read of that field.  A g that exited keeps its memory and is handed *)
(* out again by a later newproc1.                                           *)
(***************************************************************************)
MaxGoroutines == 3
Goroutines == 1..MaxGoroutines
NilValue == "nil"
TlsValues == {NilValue, "ctx1", "ctx2"}

\* defer func() { instrgen_result._tls_instrgen = callergp._tls_instrgen }()
spawnCopy(s, callergp, newg) == [s EXCEPT ![newg] = s[callergp]]

\* func InstrgenSetTls(tls interface{}) { getg().m.curg._tls_instrgen = tls }
setTlsOfAll(s, curg, tls) == [g \in DOMAIN s |-> tls]
InstrgenSetTls(s, curg, tls) == [s EXCEPT ![curg] = tls]

InitTls ==
    /\ IdleAst /\ IdleAna /\ IdleExec /\ IdleTool /\ IdleLoad /\ IdleCmd /\ IdleSrv
    /\ IdleDrv /\ IdleIfc
    /\ slots = [g \in Goroutines |-> NilValue]
    /\ live = {1}
    /\ own = [g \in Goroutines |-> [v |-> NilValue, by |-> "boot"]]
    /\ parent = [g \in Goroutines |-> 0]

tlsFrame == UNCHANGED <<astVars, anaVars, execVars, toolVars, loadVars, cmdVars,
                        srvVars, drvVars, ifcVars>>

\* a go statement in a running goroutine: newproc1 returns a g that is not
\* running, new or taken from the free list, and the deferred function
\* copies the caller's field into it
Spawn ==
    /\ \E callergp \in live, newg \in Goroutines \ live :
          /\ slots' = spawnCopy(slots, callergp, newg)
          /\ live' = live \cup {newg}
          /\ own' = [own EXCEPT ![newg] = [v |-> slots[callergp], by |-> "spawn"]]
          /\ parent' = [parent EXCEPT ![newg] = callergp]
    /\ tlsFrame

\* a goroutine other than main returns; its g goes to the free list
Exit ==
    /\ \E g \in live \ {1} : live' = live \ {g}
    /\ UNCHANGED <<slots, own, parent>>
    /\ tlsFrame

\* a running goroutine executes the body of InstrgenSetTls
SetTls ==
    /\ \E curg \in live, tls \in TlsValues :
          /\ slots' = InstrgenSetTls(slots, curg, tls)
          /\ own' = [own EXCEPT ![curg] = [v |-> tls, by |-> "set"]]
    /\ UNCHANGED <<live, parent>>
    /\ tlsFrame

NextTls == Spawn \/ Exit \/ SetTls
SpecTls == InitTls /\ [][NextTls]_vars

\* C15: the slot is per goroutine: the slot of a running goroutine holds
\* the value copied from its parent's slot when it was spawned, or the value
\* the goroutine itself passed to InstrgenSetTls last; a write of another
\* goroutine, parent or child, never shows in it.
SlotIsPerGoroutine ==
    \A g \in live : slots[g] = own[g].v

\* a goroutine still holds the value it was spawned with while the goroutine
\* that spawned it has since set another value in its own slot
SlotIsPerGoroutineWitness ==
    \E g \in live :
       /\ parent[g] \in live
       /\ own[g].by = "spawn"
       /\ own[parent[g]].by = "set"
       /\ slots[g] # NilValue
       /\ slots[parent[g]] # slots[g]

(***************************************************************************)
(* LoadProgram.  The loader type-checks packages concurrently and calls    *)
(* AfterTypeCheck once per package; the callback copies the package's      *)
(* Defs, Uses and Selections into the shared Info, one entry at a time,    *)
(* each between mutex.Lock() and mutex.Unlock().                           *)
(***************************************************************************)
MaxPackages == 2    \* packages type-checked concurrently
MaxEntries == 2     \* entries of one table of one package
Packages == 1..MaxPackages
Tables == <<"Defs", "Uses", "Selections">>
Finished == Len(Tables) + 1

\* the next entry a callback copies, from table t on: empty tables are passed
RECURSIVE nextEntry(_, _)
nextEntry(sizes, t) ==
    IF t > Len(Tables) THEN [t |-> Finished, k |-> 0, at |-> "done"]
    ELSE IF sizes[t] = 0 THEN nextEntry(sizes, t + 1)
    ELSE [t |-> t, k |-> 1, at |-> "lock"]

\* the position after mutex.Unlock(): the next entry of the range loop
afterUnlock(sizes, c) ==
    IF c.k < sizes[c.t] THEN [c EXCEPT !.k = c.k + 1, !.at = "lock"]
    ELSE nextEntry(sizes, c.t + 1)

\* mutex.Lock() returns when no callback holds the mutex
canLockAlways(m) == TRUE
canLock(m) == m = 0

\* the Info of a package: n entries in every table, or no use resolved, or
\* nothing at all
PackageInfos ==
    {[t \in 1..Len(Tables) |-> IF t \in empty THEN 0 ELSE n] :
        n \in 1..MaxEntries, empty \in {{}, {2}, {1, 2, 3}}}

InitLoad ==
    /\ IdleAst /\ IdleAna /\ IdleExec /\ IdleTool /\ IdleRt /\ IdleCmd /\ IdleSrv
    /\ IdleDrv /\ IdleIfc
    /\ mutex = 0
    /\ ginfo = [t \in 1..Len(Tables) |-> {}]
    /\ info \in [Packages -> PackageInfos]
    /\ cb = [p \in Packages |-> nextEntry(info[p], 1)]

loadFrame == UNCHANGED <<astVars, anaVars, execVars, toolVars, rtVars, cmdVars,
                         srvVars, drvVars, ifcVars, info>>

\* mutex.Lock()
CbLock ==
    /\ \E p \in Packages :
          /\ cb[p].at = "lock"
          /\ canLock(mutex)
          /\ mutex' = p
          /\ cb' = [cb EXCEPT ![p].at = "write"]
    /\ UNCHANGED ginfo
    /\ loadFrame

\* ginfo.Defs[k] = v, ginfo.Uses[k] = v, ginfo.Selections[k] = v
CbWrite ==
    /\ \E p \in Packages :
          /\ cb[p].at = "write"
          /\ ginfo' = [ginfo EXCEPT ![cb[p].t] = @ \cup {<<p, cb[p].k>>}]
          /\ cb' = [cb EXCEPT ![p].at = "unlock"]
    /\ UNCHANGED mutex
    /\ loadFrame

\* mutex.Unlock()
CbUnlock ==
    /\ \E p \in Packages :
          /\ cb[p].at = "unlock"
          /\ mutex' = 0
          /\ cb' = [cb EXCEPT ![p] = afterUnlock(info[p], cb[p])]
    /\ UNCHANGED ginfo
    /\ loadFrame

NextLoad == CbLock \/ CbWrite \/ CbUnlock
SpecLoad == InitLoad /\ [][NextLoad]_vars

\* C16: a callback that is about to write or has just written an entry of
\* the shared tables holds the mutex, so at most one callback is between
\* Lock and Unlock, and every step that changes a table is taken by the
\* holder.
WritesHoldTheMutex ==
    /\ [](/\ \A p \in Packages : cb[p].at \in {"write", "unlock"} => mutex = p
          /\ Cardinality({p \in Packages : cb[p].at \in {"write", "unlock"}}) <= 1)
    /\ [][ginfo' # ginfo => mutex \in Packages /\ cb[mutex].at = "write"]_vars

\* one callback is writing while another waits for the mutex, entries of
\* both already in the tables
WritesHoldTheMutexWitness ==
    \E p, q \in Packages :
       /\ p # q
       /\ cb[p].at = "write"
       /\ cb[q].at = "lock"
       /\ \E t1, t2 \in 1..Len(Tables) :
             /\ \E e \in ginfo[t1] : e[1] = p
             /\ \E e \in ginfo[t2] : e[1] = q

(***************************************************************************)
(* The drivers.  executeCommand runs Prune and, when Prune returned no     *)
(* error, the injecting passes; the test harness prunes and then rewrites  *)
(* the files of each test case.  Prune and every injecting pass go through *)
(* PackageAnalysis.Execute, which invokes the pass on every selected file  *)
(* unless there is no root function and returns at the first error.        *)
(***************************************************************************)
MaxCmdFiles == 3    \* selected files of a project or test case
Modes == {"--inject", "--inject-dump-ir", "harness"}
NumTestcases == 2

CasesOf(m) == IF m = "harness" THEN NumTestcases ELSE 1

\* ExecutePasses / ExecutePassesDumpIr: the injecting passes, in order
InjectPasses == <<"ContextPropagationPass", "InstrumentationPass">>

pipelineOf(m) ==
    IF m = "harness" THEN <<"OtelPruner", "BasicRewriter">>
    ELSE <<"OtelPruner">> \o InjectPasses

\* if err != nil { return err }
onErrorContinue(c) == [c EXCEPT !.stage = c.stage + 1, !.file = 1]
onError(c) == [c EXCEPT !.status = "failed"]

InitCmd ==
    /\ IdleAst /\ IdleExec /\ IdleTool /\ IdleRt /\ IdleLoad /\ IdleSrv
    /\ IdleDrv /\ IdleIfc
    /\ RootFunctions \in {<<>>, <<FuncDescriptor("main", "", "main", FuncT)>>}
    /\ FuncDecls = {}
    /\ Callgraph = EmptyGraph
    /\ GInfo = NoFile
    /\ mode \in Modes
    /\ cpc = [stage |-> 1, case |-> 1, file |-> 1, status |-> "running"]
    /\ clog = <<>>
    /\ cerr = "none"

cmdFrame == UNCHANGED <<astVars, anaVars, execVars, toolVars, rtVars, loadVars,
                        srvVars, drvVars, ifcVars, mode>>

AtCmdFile ==
    /\ cpc.status = "running"
    /\ cpc.stage <= Len(pipelineOf(mode))
    /\ cpc.file <= MaxCmdFiles

\* the pass at hand handles one file: analyzePackage hands every file to the
\* rewriter, Execute does unless the analysis has no root function
CmdPassFile ==
    /\ AtCmdFile
    /\ clog' = IF mode # "harness" /\ skipsPass(RootFunctions) THEN clog
               ELSE Append(clog, [case |-> cpc.case,
                                  pass |-> pipelineOf(mode)[cpc.stage],
                                  file |-> cpc.file])
    /\ cpc' = [cpc EXCEPT !.file = cpc.file + 1]
    /\ UNCHANGED cerr
    /\ cmdFrame

\* Execute fails on a file and the command returns the error: createFile
\* fails before the pass is invoked, printer.Fprint and os.Rename fail
\* after it was, or, without a root function, in its place
CmdPassFails ==
    /\ AtCmdFile
    /\ mode # "harness"
    /\ \E invoked \in BOOLEAN :
          /\ invoked => ~skipsPass(RootFunctions)
          /\ clog' = IF invoked
                     THEN Append(clog, [case |-> cpc.case,
                                        pass |-> pipelineOf(mode)[cpc.stage],
                                        file |-> cpc.file])
                     ELSE clog
    /\ cerr' = IF cerr = "none" THEN pipelineOf(mode)[cpc.stage] ELSE cerr
    /\ cpc' = onError(cpc)
    /\ cmdFrame

\* the pass has visited every file: the next pass, the next test case, or
\* the end of the command
CmdNextPass ==
    /\ cpc.status = "running"
    /\ cpc.stage <= Len(pipelineOf(mode))
    /\ cpc.file > MaxCmdFiles
    /\ cpc' = IF cpc.stage < Len(pipelineOf(mode))
              THEN [cpc EXCEPT !.stage = cpc.stage + 1, !.file = 1]
              ELSE IF cpc.case < CasesOf(mode)
              THEN [cpc EXCEPT !.stage = 1, !.file = 1, !.case = cpc.case + 1]
              ELSE [cpc EXCEPT !.status = "done"]
    /\ UNCHANGED <<clog, cerr>>
    /\ cmdFrame

NextCmd == CmdPassFile \/ CmdPassFails \/ CmdNextPass
SpecCmd == InitCmd /\ [][NextCmd]_vars

PrunedBefore(j, c, f) ==
    \E i \in 1..(j - 1) : clog[i] = [case |-> c, pass |-> "OtelPruner", file |-> f]

\* C17: whenever an injecting pass is invoked on a file, the pruner has been
\* invoked before on every selected file of the same project and is not
\* invoked on any of them afterwards; when pruning returned an error no
\* injecting pass is invoked at all.
PruneCompletesBeforeInject ==
    /\ \A j \in 1..Len(clog) :
          clog[j].pass # "OtelPruner" =>
             /\ \A f \in 1..MaxCmdFiles : PrunedBefore(j, clog[j].case, f)
             /\ \A k \in (j + 1)..Len(clog) :
                   clog[k].case = clog[j].case => clog[k].pass # "OtelPruner"
    /\ cerr = "OtelPruner" => \A j \in 1..Len(clog) : clog[j].pass = "OtelPruner"

\* the inject command has run every pass on every file
PruneCompletesWitness ==
    /\ mode = "--inject"
    /\ cpc.status = "done"
    /\ Len(clog) = MaxCmdFiles * (1 + Len(InjectPasses))

(***************************************************************************)
(* Re-instrumentation: the test harness hands every file of a test case to *)
(* the pruner and then to BasicRewriter; run on the sources an earlier run *)
(* left, the pruner first takes out what that run put in.                  *)
(***************************************************************************)
\* TestInstrumentation: analyzePackage(pruner, ...), analyzePackage(rewriter, ...)
runHarnessUnpruned(f) == BasicRewriter_Rewrite(f)
runHarness(f) ==
    LET r == OtelPruner_Rewrite(f)
    IN  IF r.panic THEN r ELSE BasicRewriter_Rewrite(r.file)

InitReinject ==
    /\ \E s \in SeqsUpTo(CleanStmts, MaxCalls) :
         \E c1, c2, c3 \in 0..Len(s) :
            /\ c1 <= c2 /\ c2 <= c3
            /\ file = CleanFile(SubSeq(s, 1, c1), SubSeq(s, c1 + 1, c2),
                                SubSeq(s, c2 + 1, c3), <<>>,
                                SubSeq(s, c3 + 1, Len(s)))
    /\ orig = file
    /\ prev = file
    /\ pc = "loaded"
    /\ RootFunctions = <<>>
    /\ FuncDecls = {}
    /\ Callgraph = EmptyGraph
    /\ GInfo = NoFile
    /\ IdleExec
    /\ IdleAux

\* TestInstrumentation on the sources as they are
RunHarness ==
    /\ pc \in {"loaded", "harness once"}
    /\ LET r == runHarness(file)
       IN  IF r.panic THEN pc' = "panic" /\ file' = file /\ prev' = prev
           ELSE /\ pc' = IF pc = "loaded" THEN "harness once" ELSE "harness twice"
                /\ file' = r.file
                /\ prev' = IF pc = "loaded" THEN r.file ELSE prev
    /\ UNCHANGED <<orig, anaVars, execVars, auxVars>>

NextReinject == RunHarness
SpecReinject == InitReinject /\ [][NextReinject]_vars

MaxRequests == 3    \* /terminal requests the server receives
MaxLog == 3         \* bytes written to instrgen.log
Requests == 1..MaxRequests

Waiting == [at |-> "waiting", start |-> 0, filesize |-> 0, chunkSize |-> 0,
            from |-> 0, bytesread |-> 0, loaded |-> 0]

\* bytesread, err := file.ReadAt(buffer, *fileOffset): the bytes the file
\* has from the offset on, at most len(buffer)
ReadAt(size, len, off) ==
    IF off >= size THEN 0
    ELSE IF size - off < len THEN size - off ELSE len

\* the locals after chunkSize := filesize - *fileOffset; make([]byte, chunkSize)
\* panics on a negative length
sized(h, off) ==
    IF h.filesize - off < 0 THEN [h EXCEPT !.at = "panic"]
    ELSE [h EXCEPT !.chunkSize = h.filesize - off, !.at = "read"]

InitTerminal ==
    /\ IdleAst /\ IdleAna /\ IdleExec /\ IdleTool /\ IdleRt /\ IdleLoad /\ IdleCmd
    /\ IdleDrv /\ IdleIfc
    /\ fileOffset = 0
    /\ logSize \in 0..1
    /\ handlers = [r \in Requests |-> Waiting]
    /\ responses = <<>>
    /\ maxOffset = 0

srvFrame == UNCHANGED <<astVars, anaVars, execVars, toolVars, rtVars, loadVars,
                        cmdVars, drvVars, ifcVars>>

\* another endpoint writes a line to the log
LogGrows ==
    /\ logSize < MaxLog
    /\ logSize' = logSize + 1
    /\ UNCHANGED <<fileOffset, handlers, responses, maxOffset>>
    /\ srvFrame

\* w.WriteHeader(200); os.Open; filesize := file.Stat().Size()
\* (a failure of Open or Stat ends the request with an empty body)
TerminalStat ==
    /\ \E r \in Requests, opened \in BOOLEAN :
          /\ handlers[r].at = "waiting"
          /\ handlers' = [handlers EXCEPT
                ![r].at = IF opened THEN "size" ELSE "failed",
                ![r].start = fileOffset,
                ![r].filesize = IF opened THEN logSize ELSE 0]
    /\ UNCHANGED <<fileOffset, logSize, responses, maxOffset>>
    /\ srvFrame

\* chunkSize := filesize - *fileOffset; buffer := make([]byte, chunkSize)
TerminalSize ==
    /\ \E r \in Requests :
          /\ handlers[r].at = "size"
          /\ handlers' = [handlers EXCEPT ![r] = sized(@, fileOffset)]
    /\ UNCHANGED <<fileOffset, logSize, responses, maxOffset>>
    /\ srvFrame

\* file.ReadAt(buffer, *fileOffset): the read of the offset for the argument
TerminalReadArg ==
    /\ \E r \in Requests :
          /\ handlers[r].at = "read"
          /\ handlers' = [handlers EXCEPT ![r].at = "readat",
                                           ![r].from = fileOffset]
    /\ UNCHANGED <<fileOffset, logSize, responses, maxOffset>>
    /\ srvFrame

\* bytesread, err := file.ReadAt(buffer, *fileOffset): the call, on the file
\* as it is then
TerminalRead ==
    /\ \E r \in Requests :
          /\ handlers[r].at = "readat"
          /\ handlers' = [handlers EXCEPT
                ![r].at = "load",
                ![r].bytesread = ReadAt(logSize, handlers[r].chunkSize,
                                        handlers[r].from)]
    /\ UNCHANGED <<fileOffset, logSize, responses, maxOffset>>
    /\ srvFrame

\* *fileOffset += int64(bytesread): the read of the offset
TerminalLoad ==
    /\ \E r \in Requests :
          /\ handlers[r].at = "load"
          /\ handlers' = [handlers EXCEPT ![r].at = "store",
                                           ![r].loaded = fileOffset]
    /\ UNCHANGED <<fileOffset, logSize, responses, maxOffset>>
    /\ srvFrame

\* *fileOffset += int64(bytesread): the write of the sum
TerminalStore ==
    /\ \E r \in Requests :
          /\ handlers[r].at = "store"
          /\ fileOffset' = handlers[r].loaded + handlers[r].bytesread
          /\ maxOffset' = IF fileOffset' > maxOffset THEN fileOffset'
                          ELSE maxOffset
          /\ handlers' = [handlers EXCEPT ![r].at = "write"]
    /\ UNCHANGED <<logSize, responses>>
    /\ srvFrame

\* w.Write(buffer)
TerminalWrite ==
    /\ \E r \in Requests :
          /\ handlers[r].at = "write"
          /\ responses' = Append(responses,
                [req |-> r, start |-> handlers[r].start,
                 filesize |-> handlers[r].filesize,
                 len |-> handlers[r].chunkSize,
                 from |-> handlers[r].from,
                 bytes |-> handlers[r].bytesread])
          /\ handlers' = [handlers EXCEPT ![r].at = "done"]
    /\ UNCHANGED <<fileOffset, logSize, maxOffset>>
    /\ srvFrame

NextTerminal ==
    \/ LogGrows \/ TerminalStat \/ TerminalSize \/ TerminalReadArg
    \/ TerminalRead \/ TerminalLoad \/ TerminalStore \/ TerminalWrite
SpecTerminal == InitTerminal /\ [][NextTerminal]_vars

\* C19: the shared offset never decreases, and every response carries
\* exactly the log bytes from the offset before the request up to the log
\* size the request read.
TerminalOffsetAdvances ==
    /\ fileOffset = maxOffset
    /\ \A i \in 1..Len(responses) :
          /\ responses[i].from = responses[i].start
          /\ responses[i].bytes = responses[i].len
          /\ responses[i].from + responses[i].bytes = responses[i].filesize

\* the log bytes the i-th response carries
BytesOf(i) ==
    responses[i].from + 1 .. responses[i].from + responses[i].bytes

\* C30: with /terminal requests handled concurrently on the one offset, the
\* offset never exceeds the size of the log, no request computes a negative
\* chunk size (make would panic), and no log byte is returned in two
\* different responses.
TerminalOffsetWithinLog ==
    /\ fileOffset <= logSize
    /\ \A r \in Requests : handlers[r].at # "panic"
    /\ \A i, j \in 1..Len(responses) :
          i # j => BytesOf(i) \cap BytesOf(j) = {}

(***************************************************************************)
(* The command line of the driver: main checks the number of arguments,    *)
(* splits the project-path argument at commas, and executeCommand checks   *)
(* every project path before it dispatches on the command.                 *)
(***************************************************************************)
MaxPaths == 2       \* project paths in the comma-separated argument
PathNames == {"p", "q"}
Kinds == {"dir", "file", "missing"}
Commands == {"--inject", "--inject-dump-ir", "--dumpcfg", "--rootfunctions",
             "--prune", "--generatecfg", "--server", "--bogus"}

RECURSIVE JoinPaths(_)
JoinPaths(ps) ==
    IF Len(ps) = 0 THEN ""
    ELSE IF Len(ps) = 1 THEN ps[1]
    ELSE ps[1] \o "," \o JoinPaths(Tail(ps))

PathArgs == {JoinPaths(ps) : ps \in SeqsUpTo(PathNames, MaxPaths)}

\* strings.Split(s, ","): the pieces between the commas, one piece for a
\* string without a comma (the empty string included)
RECURSIVE splitFrom(_, _, _)
splitFrom(s, start, i) ==
    IF i > Len(s) THEN
        <<IF start > Len(s) THEN "" ELSE SubSeq(s, start, Len(s))>>
    ELSE IF SubSeq(s, i, i) = "," THEN
        <<IF start = i THEN "" ELSE SubSeq(s, start, i - 1)>>
            \o splitFrom(s, i + 1, i + 1)
    ELSE splitFrom(s, start, i + 1)
strings_Split(s) == splitFrom(s, 1, 1)

\* checkArgs: an error unless len(args) is 4
checkArgs(args) == IF Len(args) # 4 THEN "wrong arguments" ELSE "none"

\* isDirectory: os.Stat fails for a path that does not exist, and
\* IsDir() tells a directory from a file
isDirectoryAlways(fs, path) == [isDir |-> TRUE, err |-> "none"]
isDirectory(fs, path) ==
    IF path \notin DOMAIN fs \/ fs[path] = "missing"
    THEN [isDir |-> FALSE, err |-> "stat"]
    ELSE [isDir |-> fs[path] = "dir", err |-> "none"]

\* the steps of executeCommand's switch; Prune and the injecting passes may
\* return an error
commandSteps(command, pruneFails) ==
    CASE command = "--inject" ->
            IF pruneFails THEN <<"Prune">>
            ELSE <<"Prune", "makeAnalysis", "ExecutePasses">>
      [] command = "--inject-dump-ir" ->
            IF pruneFails THEN <<"Prune">>
            ELSE <<"Prune", "makeAnalysis", "ExecutePassesDumpIr">>
      [] command = "--dumpcfg" -> <<"makeCallGraph", "dumpCallGraph">>
      [] command = "--rootfunctions" ->
            <<"makeRootFunctions", "dumpRootFunctions">>
      [] command = "--prune" -> <<"Prune">>
      [] command = "--generatecfg" -> <<"makeCallGraph", "GenerateForwardCfg">>
      [] command = "--server" -> <<"server">>
      [] OTHER -> <<>>

\* the error executeCommand returns: that of Prune, else that of
\* ExecutePasses or ExecutePassesDumpIr, else none for a known command
commandError(command, pruneFails, passesFail) ==
    IF command \in {"--inject", "--inject-dump-ir", "--prune"} /\ pruneFails
    THEN "prune"
    ELSE IF command \in {"--inject", "--inject-dump-ir"} /\ passesFail
    THEN "passes"
    ELSE IF command \in Commands \ {"--bogus"} THEN "none"
    ELSE "unknown command"

InitDriver ==
    /\ IdleAst /\ IdleAna /\ IdleExec /\ IdleTool /\ IdleRt /\ IdleLoad
    /\ IdleCmd /\ IdleSrv /\ IdleIfc
    /\ fsys \in [PathNames -> Kinds]
    /\ \E command \in Commands, paths \in PathArgs, n \in 0..4 :
          osArgs = <<"instrgen">>
                     \o SubSeq(<<command, paths, "./...", "extra">>, 1, n)
    /\ dpc = "main"
    /\ dpaths = <<>>
    /\ dchecked = 0
    /\ dsteps = <<>>
    /\ derr = "none"

drvFrame == UNCHANGED <<astVars, anaVars, execVars, toolVars, rtVars, loadVars,
                        cmdVars, srvVars, ifcVars, osArgs, fsys>>

\* main: os.Create("instrgen.log"), log.Fatal on an error; then
\* checkArgs(os.Args), return on an error; else split os.Args[2]
DriverCheckArgs ==
    /\ dpc = "main"
    /\ \E logCreated \in BOOLEAN :
          IF ~logCreated
          THEN derr' = "create" /\ dpc' = "fatal" /\ dpaths' = dpaths
          ELSE /\ derr' = checkArgs(osArgs)
               /\ IF derr' # "none"
                  THEN dpc' = "returned" /\ dpaths' = dpaths
                  ELSE dpc' = "validate" /\ dpaths' = strings_Split(osArgs[3])
    /\ UNCHANGED <<dchecked, dsteps>>
    /\ drvFrame

\* executeCommand: one round of the loop over projectPaths
DriverValidate ==
    /\ dpc = "validate"
    /\ dchecked < Len(dpaths)
    /\ LET r == isDirectory(fsys, dpaths[dchecked + 1]) IN
          IF ~r.isDir THEN
              /\ derr' = "[path to go project] argument must be directory"
              /\ dpc' = "fatal"
              /\ dchecked' = dchecked
          ELSE IF r.err # "none" THEN
              /\ derr' = r.err
              /\ dpc' = "fatal"
              /\ dchecked' = dchecked
          ELSE
              /\ dchecked' = dchecked + 1
              /\ UNCHANGED <<derr, dpc>>
    /\ UNCHANGED <<dpaths, dsteps>>
    /\ drvFrame

\* executeCommand: the switch on the command, after the loop
DriverDispatch ==
    /\ dpc = "validate"
    /\ dchecked = Len(dpaths)
    /\ \E pruneFails, passesFail \in BOOLEAN :
          /\ dsteps' = commandSteps(osArgs[2], pruneFails)
          /\ derr' = commandError(osArgs[2], pruneFails, passesFail)
          /\ dpc' = IF derr' = "none" THEN "done" ELSE "fatal"
    /\ UNCHANGED <<dpaths, dchecked>>
    /\ drvFrame

NextDriver == DriverCheckArgs \/ DriverValidate \/ DriverDispatch
SpecDriver == InitDriver /\ [][NextDriver]_vars

\* the project paths of the command line are all existing directories
AllDirectories ==
    \A i \in 1..Len(strings_Split(osArgs[3])) :
        LET path == strings_Split(osArgs[3])[i] IN
            path \in DOMAIN fsys /\ fsys[path] = "dir"

\* C21: with an argument count other than four, or a project path that is
\* not an existing directory, no analysis or rewrite step runs and the
\* command ends with an error; a step runs only after every project path
\* was validated.
BadArgumentsAbortEarly ==
    /\ (Len(osArgs) # 4 \/ ~AllDirectories) =>
          /\ dsteps = <<>>
          /\ dpc # "done"
          /\ dpc \in {"returned", "fatal"} => derr # "none"
    /\ dsteps # <<>> => dchecked = Len(strings_Split(osArgs[3]))

BadArgumentsWitness ==
    /\ Len(osArgs) = 4
    /\ Len(dpaths) = 2
    /\ fsys[dpaths[1]] = "dir"
    /\ fsys[dpaths[2]] = "file"
    /\ dchecked = 1
    /\ dpc = "fatal"

(***************************************************************************)
(* main of the build-shim driver: the name of the first argument selects   *)
(* between the compile interception, the command executor and the          *)
(* pass-through of the wrapped tool.                                       *)
(***************************************************************************)
\* filepath.Ext: the suffix from the last dot of the last path element on
filepath_Ext(s) ==
    LET dots == {i \in lastSlash(s) + 1 .. Len(s) : SubSeq(s, i, i) = "."}
    IN  IF dots = {} THEN ""
        ELSE SubSeq(s, CHOOSE i \in dots : \A j \in dots : j <= i, Len(s))

\* strings.TrimSuffix
strings_TrimSuffix(s, suffix) ==
    IF strings_HasSuffix(s, suffix)
    THEN IF Len(s) = Len(suffix) THEN "" ELSE SubSeq(s, 1, Len(s) - Len(suffix))
    ELSE s

\* GetCommandName: the base name of args[0] without its extension
GetCommandName(args) ==
    IF Len(args) = 0 THEN ""
    ELSE LET cmd == filepath_Base(args[1]) IN
         IF filepath_Ext(cmd) # "" THEN strings_TrimSuffix(cmd, filepath_Ext(cmd))
         ELSE cmd

ShimCommands ==
    {"--inject", "--prune", "--inject-dump-ir", "--dumpcfg", "--rootfunctions"}

\* the switch of main: Go leaves the switch at the end of a case, so the
\* body executeCommandProxy(cmdName); return belongs to the last case only
proxied(cmdName) == cmdName = "--rootfunctions"

FirstArgs == ShimCommands \cup
    {"/go/tool/compile", "/go/tool/compile.exe", "/go/tool/link", "asm",
     "--server"}
RestArgs == SeqsUpTo({"p", "./..."}, MaxArgs)

InitShim ==
    /\ IdleAst /\ IdleAna /\ IdleExec /\ IdleTool /\ IdleRt /\ IdleLoad
    /\ IdleCmd /\ IdleSrv /\ IdleIfc
    /\ fsys \in [{"p"} -> Kinds]
    /\ \/ osArgs = <<"instrgen">>
       \/ \E first \in FirstArgs, rest \in RestArgs :
             osArgs = <<"instrgen", first>> \o rest
    /\ dpc = "main"
    /\ dpaths = <<>>
    /\ dchecked = 0
    /\ dsteps = <<>>
    /\ derr = "none"

shimFrame == UNCHANGED <<astVars, anaVars, execVars, toolVars, rtVars,
                         loadVars, cmdVars, srvVars, ifcVars, osArgs, fsys,
                         dpaths,
                         dchecked>>

\* main: args := os.Args[1:]; cmdName := GetCommandName(args); the branch
ShimMain ==
    /\ dpc = "main"
    /\ LET cmdName == GetCommandName(Tail(osArgs)) IN
          dpc' = IF cmdName = "compile" THEN "toolExecMain"
                 ELSE IF proxied(cmdName) THEN "executeCommandProxy"
                 ELSE "executePass"
    /\ UNCHANGED <<dsteps, derr>>
    /\ shimFrame

\* executeCommandProxy: checkArgs, then executeCommand (isDirectory,
\* LoadProgram, the switch on the command)
ShimProxy ==
    /\ dpc = "executeCommandProxy"
    /\ \E loadFails \in BOOLEAN :
          IF checkArgs(osArgs) # "none" THEN
              /\ derr' = checkArgs(osArgs)
              /\ dsteps' = <<"executeCommandProxy">>
              /\ dpc' = "returned"
          ELSE IF ~isDirectory(fsys, osArgs[3]).isDir THEN
              /\ derr' = "[path to go project] argument must be directory"
              /\ dsteps' = <<"executeCommandProxy">>
              /\ dpc' = "fatal"
          ELSE IF loadFails THEN
              /\ derr' = "load"
              /\ dsteps' = <<"executeCommandProxy", "LoadProgram">>
              /\ dpc' = "fatal"
          ELSE
              /\ derr' = "none"
              /\ dsteps' = <<"executeCommandProxy", "LoadProgram">>
                             \o commandSteps(osArgs[2], FALSE)
              /\ dpc' = "done"
    /\ shimFrame

\* executePass(args[0:]): path := args[0] panics without arguments; else
\* exec.Command(path, args...) runs the first argument as a program
ShimPass ==
    /\ dpc = "executePass"
    /\ IF Len(osArgs) = 1
       THEN dpc' = "panic" /\ dsteps' = dsteps
       ELSE dpc' = "done" /\ dsteps' = <<"exec " \o osArgs[2]>>
    /\ UNCHANGED derr
    /\ shimFrame

\* toolExecMain(args): the compile interception, ending in executePass
ShimTool ==
    /\ dpc = "toolExecMain"
    /\ dsteps' = <<"toolExecMain", "exec " \o osArgs[2]>>
    /\ dpc' = "done"
    /\ UNCHANGED derr
    /\ shimFrame

NextShim == ShimMain \/ ShimProxy \/ ShimPass \/ ShimTool
SpecShim == InitShim /\ [][NextShim]_vars

\* the first argument was run as an external program by main's own
\* executePass (not by the compile interception)
PassedThrough == dsteps # <<>> /\ dsteps[1] = "exec " \o osArgs[2]

\* C22: each of --inject, --inject-dump-ir, --prune, --dumpcfg and
\* --rootfunctions goes to the command executor and is never run as an
\* external tool; only a first argument that is neither a command nor
\* compile is passed through to the wrapped tool.
CommandsReachExecutor ==
    dpc \in {"done", "returned", "fatal"} =>
        LET cmdName == GetCommandName(Tail(osArgs)) IN
            /\ cmdName \in ShimCommands =>
                  dsteps # <<>> /\ dsteps[1] = "executeCommandProxy"
            /\ PassedThrough => cmdName \notin ShimCommands \cup {"compile"}

(***************************************************************************)
(* Further properties of the analysis and of the context propagation.      *)
(***************************************************************************)
NoCallerTwice(graph) ==
    \A k \in DOMAIN graph :
       \A i, j \in 1..Len(graph[k]) : i # j => graph[k][i] # graph[k][j]

DoWorkCall == ExprStmt(IdentCall("doWork", TypeString(DoWorkParams), <<Ident("x")>>))

\* C23: in the reverse call graph no caller list holds a caller twice,
\* however many call sites of the caller invoke the callee, and also after
\* the builder has walked a further file with the same calls into the graph.
EdgesAreDeduplicated ==
    pc = "analysed" =>
       /\ NoCallerTwice(Callgraph)
       /\ NoCallerTwice(buildCallGraph(file, GInfo, FuncDecls, Callgraph))

EdgesAreDeduplicatedWitness ==
    /\ pc = "analysed"
    /\ file.decls[3].body = <<DoWorkCall, DoWorkCall>>
    /\ file.decls[5].body = <<DoWorkCall>>
    /\ Callgraph[declDescriptor(file, file.decls[4])]
          = <<declDescriptor(file, file.decls[3]),
              declDescriptor(file, file.decls[4])>>

\* a parameter list, a body or a call that holds something the pruner's
\* patterns match
DirtyParams(params) == \E k \in 1..Len(params) : paramHits(params[k]) > 0
DirtyBody(body) == \E k \in 1..Len(body) : stmtHits(body[k]) > 0
DirtyCall(c) ==
    \E k \in 1..Len(c.args) :
        identArgHits(c.args[k]) > 0 \/ callArgHits(c.args[k]) > 0
DirtyCalls(body) ==
    \E k \in 1..Len(body) :
        \E n \in 1..Len(stmtCalls(body[k])) : DirtyCall(stmtCalls(body[k])[n])

CleanDecl(d) ==
    /\ ~DirtyParams(d.params)
    /\ \A m \in 1..Len(d.methods) : ~DirtyParams(d.methods[m].params)
    /\ ~DirtyBody(d.body)
    /\ ~DirtyCalls(d.body)

\* C24: after one pruner pass no declaration, function literal or
\* interface method has a prefixed parameter, no body has a top-level
\* statement matching a synthetic pattern and no call has a prefixed
\* identifier or a call on a prefixed receiver among its arguments.
NoArtifactRemains ==
    pc = "pruned" => \A i \in 1..Len(file.decls) : CleanDecl(file.decls[i])

\* the same for the declarations that have a body, the function literals
\* and the interfaces
NoArtifactInBodies ==
    pc = "pruned" =>
       \A i \in 1..Len(file.decls) :
          file.decls[i].kind # "extern" => CleanDecl(file.decls[i])

\* the elements of a list that match no pattern of the pruner, in order
RECURSIVE UnmatchedParams(_)
UnmatchedParams(params) ==
    IF params = <<>> THEN <<>>
    ELSE (IF paramHits(Head(params)) = 0 THEN <<Head(params)>> ELSE <<>>)
         \o UnmatchedParams(Tail(params))

RECURSIVE UnmatchedStmts(_)
UnmatchedStmts(body) ==
    IF body = <<>> THEN <<>>
    ELSE (IF stmtHits(Head(body)) = 0 THEN <<Head(body)>> ELSE <<>>)
         \o UnmatchedStmts(Tail(body))

\* list holds the elements of sub in their order (and maybe more)
RECURSIVE IsSubsequence(_, _)
IsSubsequence(sub, list) ==
    IF sub = <<>> THEN TRUE
    ELSE IF list = <<>> THEN FALSE
    ELSE IF Head(sub) = Head(list) THEN IsSubsequence(Tail(sub), Tail(list))
    ELSE IsSubsequence(sub, Tail(list))

\* C28: the pruner never removes a parameter or a statement that matches
\* no pattern, and never removes at an index below zero (which panics),
\* also when one element matches two patterns at once.
PrunerRemovesOnlyMatches ==
    /\ pc # "panic"
    /\ pc = "pruned" =>
          \A i \in 1..Len(prev.decls) :
             LET d == prev.decls[i]
                 kept == UnmatchedStmts(d.body)
             IN  /\ d.kind \in {"func", "funclit"} =>
                       /\ IsSubsequence(UnmatchedParams(d.params),
                                        file.decls[i].params)
                       /\ IsSubsequence(
                             [k \in 1..Len(kept) |-> pruneStmtCalls(kept[k])],
                             file.decls[i].body)
                 /\ \A m \in 1..Len(d.methods) :
                       IsSubsequence(UnmatchedParams(d.methods[m].params),
                                     file.decls[i].methods[m].params)

ReachesSomeRoot(fun) ==
    \E r \in 1..Len(RootFunctions) : Reaches(Callgraph, fun, RootFunctions[r])

\* C25: with several roots, a declared function that is no root and has a
\* path in the reverse call graph to any root gains the context parameter,
\* and its calls of declared functions with such a path pass the enclosing
\* context.
AnyRootGivesContext ==
    pc = "propagated" =>
       \A i \in FuncIdx(prev) :
          LET fun == declDescriptor(prev, prev.decls[i])
          IN  (/\ InGraph(Callgraph, fun)
               /\ fun \notin SeqToSet(RootFunctions)
               /\ ReachesSomeRoot(fun))
              => /\ file.decls[i].params = <<ctxField>> \o prev.decls[i].params
                 /\ \A k \in 1..Len(prev.decls[i].body) :
                       (IsKnownCall(i, k) /\ ReachesSomeRoot(CalleeOf(i, k)))
                       => ArgsAfter(i, k) = <<ctxArg>> \o ArgsBefore(i, k)

\* the body holds a call the type checker resolved to the callee
CallsIn(body, callee) ==
    \E k \in 1..Len(body) :
        \E n \in 1..Len(stmtCalls(body[k])) :
            /\ resolves(stmtCalls(body[k])[n])
            /\ funcCallOf(GInfo, stmtCalls(body[k])[n]) = callee

\* C26: every caller of an edge is a function declaration whose body holds
\* a call of the callee, and every root is a function declaration whose
\* body holds the marker call; a call outside every function declaration is
\* credited to no function.
CallerIsEnclosingFunction ==
    pc = "analysed" =>
       /\ \A callee \in DOMAIN Callgraph :
             \A n \in 1..Len(Callgraph[callee]) :
                \E i \in FuncIdx(file) :
                   /\ declDescriptor(file, file.decls[i]) = Callgraph[callee][n]
                   /\ CallsIn(file.decls[i].body, callee)
       /\ \A r \in 1..Len(RootFunctions) :
             \E i \in FuncIdx(file) :
                /\ RootFunctions[r] \in {declDescriptor(file, file.decls[i])}
                                         \cup rootDescriptors(file, file.decls[i])
                /\ HasMarker(file.decls[i].body)

\* the declaration of the function a descriptor names gained the leading
\* context parameter in the last pass
DeclGained(callee) ==
    \E j \in FuncIdx(prev) :
       /\ callee \in {declDescriptor(prev, prev.decls[j])}
                      \cup rootDescriptors(prev, prev.decls[j])
       /\ file.decls[j].params = <<ctxField>> \o prev.decls[j].params

CallGained(i, k) == Len(ArgsAfter(i, k)) = Len(ArgsBefore(i, k)) + 1

\* C27: after the context propagation pass a call of a declared function
\* carries an injected leading argument if and only if the declaration of
\* the function gained the leading context parameter.
SignaturesMatchCalls ==
    pc = "propagated" =>
       \A i \in BodyIdx(prev) : \A k \in 1..Len(prev.decls[i].body) :
          IsKnownCall(i, k) => (CallGained(i, k) <=> DeclGained(CalleeOf(i, k)))

(***************************************************************************)
(* ContextPropagationPass (lib), the version that works on FuncsInfo: a    *)
(* declared function that is no root gets the parameter, a call of a       *)
(* declared function gets an argument, and a call through a selector is    *)
(* looked up once more for every implementation registered for its         *)
(* receiver type.  Receivers are written without the leading dot here.     *)
(***************************************************************************)
ImplSets == {<<"main.T">>, <<"main.T", "main.U">>}

\* a program: interface I with method M, a function literal, main, doWork
\* and the method M of every implementing type
WidenFile(b0, bMain, bWork, impls) ==
    [pkg   |-> "main",
     decls |-> <<InterfaceSpec("I", <<Method("M", <<>>)>>),
                 VarFuncLit("lit0", <<>>, b0),
                 FuncDecl("main", "", <<>>, bMain),
                 FuncDecl("doWork", "", DoWorkParams, bWork)>>
               \o [k \in 1..Len(impls) |-> FuncDecl("M", impls[k], <<>>, <<>>)],
     imports |-> {Import("", "fmt")}]

\* fun := FuncDescriptor{pkg, recvStr, name, ftype.String(), ...} of a
\* declaration
\* declaration, its type read from GInfo.Defs
funOfDecl(tinfo, d) ==
    FuncDescriptor(tinfo.pkg, d.recv, d.name, declType(tinfo, d))

\* the interface types of the file a receiver type implements
implementedBy(f, recvT) ==
    {f.pkg \o "." \o f.decls[i].name :
        i \in {k \in 1..Len(f.decls) :
                  /\ f.decls[k].kind = "iface"
                  /\ f.decls[k].methods # <<>>
                  /\ Implements(f, recvT, f.decls[k])}}

\* FuncsInfo.FuncDecls: the descriptor of every declared function, and for
\* a method of an implementing type a second one keyed by the interface
funcsInfoDecls(f) ==
    UNION {LET d == f.decls[i] IN
              {funOfDecl(f, d)}
              \cup (IF d.recv = "" THEN {}
                    ELSE {FuncDescriptor(f.pkg, t, d.name, declType(f, d)) :
                             t \in implementedBy(f, d.recv)})
           : i \in {k \in 1..Len(f.decls) : isFuncDecl(f.decls[k])}}

\* FuncsInfo.InterfaceImplMapping: interface type -> implementing receivers
funcsInfoImpls(f) ==
    LET ifaces == {f.pkg \o "." \o f.decls[i].name :
                      i \in {k \in 1..Len(f.decls) : f.decls[k].kind = "iface"}}
        recvs  == {f.decls[i].recv :
                      i \in {k \in 1..Len(f.decls) :
                                isFuncDecl(f.decls[k]) /\ f.decls[k].recv # ""}}
    IN  [t \in ifaces |-> {r \in recvs : t \in implementedBy(f, r)}]

\* funcCall of the *ast.CallExpr case, its type read from GInfo.Uses
funcCallOfSite(tinfo, c) ==
    IF c.fk = "ident"
    THEN FuncDescriptor(tinfo.pkg, "", c.sel, usesType(tinfo, c))
    ELSE FuncDescriptor(tinfo.pkg, c.recvT, c.sel,
                        IF usesType(tinfo, c) = NoType THEN ""
                        ELSE usesType(tinfo, c))

\* implFuncCall for an implementation registered for the receiver type
implFuncCall(tinfo, c, impl) ==
    FuncDescriptor(tinfo.pkg, impl, c.sel,
                   IF usesType(tinfo, c) = NoType THEN "" ELSE usesType(tinfo, c))

implsOf(mapping, recvStr) ==
    IF recvStr \in DOMAIN mapping THEN mapping[recvStr] ELSE {}

\* the calls of emitEmptyContext the pass makes for one call expression
emitCount(tinfo, c, funcDecls, mapping) ==
    IF ~resolves(c) THEN 0
    ELSE IF c.fk = "ident"
    THEN B2N(funcCallOfSite(tinfo, c) \in funcDecls)
    ELSE B2N(funcCallOfSite(tinfo, c) \in funcDecls)
         + Cardinality({impl \in implsOf(mapping, c.recvT) :
                           implFuncCall(tinfo, c, impl) \in funcDecls})

\* emitEmptyContext: the expression put in front of the arguments
emittedContext(currentFun) ==
    IF currentFun # ZeroDescriptor THEN ctxArg ELSE contextTodo

RECURSIVE widenCall(_, _, _, _, _)
widenCall(tinfo, ex, currentFun, funcDecls, mapping) ==
    IF ex.e # "call" THEN ex
    ELSE LET inner == [i \in 1..Len(ex.args) |->
                          widenCall(tinfo, ex.args[i], currentFun, funcDecls,
                                    mapping)]
             n == emitCount(tinfo, ex, funcDecls, mapping)
         IN  [ex EXCEPT !.args =
                 [i \in 1..n |-> emittedContext(currentFun)] \o inner]

widenStmt(tinfo, stmt, currentFun, funcDecls, mapping) ==
    [stmt EXCEPT
       !.lhs = [i \in 1..Len(stmt.lhs) |->
                  widenCall(tinfo, stmt.lhs[i], currentFun, funcDecls, mapping)],
       !.rhs = [i \in 1..Len(stmt.rhs) |->
                  widenCall(tinfo, stmt.rhs[i], currentFun, funcDecls, mapping)],
       !.x   = widenCall(tinfo, stmt.x, currentFun, funcDecls, mapping)]

\* The walk visits the tree f and reads every type from tinfo, the tree as
\* LoadProgram type-checked it.
widenDecl(f, tinfo, i, roots, funcDecls, mapping) ==
    LET d   == f.decls[i]
        cur == currentFunAt(f, tinfo, i)
        body == [k \in 1..Len(d.body) |->
                   widenStmt(tinfo, d.body[k], cur, funcDecls, mapping)]
    IN  CASE isFuncDecl(d) ->
               [d EXCEPT !.params =
                             IF /\ ~Contains(roots, funOfDecl(tinfo, d))
                                /\ funOfDecl(tinfo, d) \in funcDecls
                             THEN <<ctxField>> \o @ ELSE @,
                         !.body = body]
          [] d.kind = "funclit" -> [d EXCEPT !.body = body]
          [] d.kind = "iface" ->
               [d EXCEPT !.methods =
                   [m \in 1..Len(d.methods) |->
                       [d.methods[m] EXCEPT !.params = <<ctxField>> \o @]]]
          [] OTHER -> d

\* Execute, and the import it asks for when it changed something
FuncsInfoPass_Execute(f, tinfo, roots, funcDecls, mapping) ==
    LET decls == [i \in 1..Len(f.decls) |->
                    widenDecl(f, tinfo, i, roots, funcDecls, mapping)]
    IN  [f EXCEPT !.decls = decls,
                  !.imports = IF decls # f.decls
                              THEN @ \cup {Import("__atel_context", "context")}
                              ELSE @]

InitContext ==
    /\ \E s \in SeqsUpTo(CleanStmts, MaxCalls), impls \in ImplSets :
         \E c1, c2 \in 0..Len(s) :
            /\ c1 <= c2
            /\ file = WidenFile(SubSeq(s, 1, c1), SubSeq(s, c1 + 1, c2),
                                SubSeq(s, c2 + 1, Len(s)), impls)
    /\ orig = file
    /\ prev = file
    /\ pc = "loaded"
    /\ RootFunctions = <<>>
    /\ FuncDecls = {}
    /\ Callgraph = EmptyGraph
    /\ GInfo = file
    /\ IdleExec
    /\ IdleAux

\* makeAnalysis: the roots, FuncsInfo and the call graph over FuncsInfo
FindFuncsInfo ==
    /\ pc = "loaded"
    /\ \E orders \in AnalysisOrders(file) :
          RootFunctions' = findRootFunctions(file, GInfo, orders)
    /\ FuncDecls' = funcsInfoDecls(file)
    /\ InterfaceImplMapping' = funcsInfoImpls(file)
    /\ Callgraph' = buildCallGraph(file, GInfo, funcsInfoDecls(file), EmptyGraph)
    /\ pc' = "found"
    /\ UNCHANGED <<file, orig, prev, GInfo, execVars, toolVars, rtVars,
                   loadVars, cmdVars, srvVars, drvVars>>

\* PackageAnalysis.Execute with the pass on the file: with root functions
\* ContextPropagationPass.Execute runs over the tree
Widen ==
    /\ pc = "found"
    /\ ~skipsPass(RootFunctions)
    /\ file' = FuncsInfoPass_Execute(file, GInfo, RootFunctions, FuncDecls,
                                      InterfaceImplMapping)
    /\ prev' = file
    /\ pc' = "widened"
    /\ UNCHANGED <<orig, anaVars, execVars, auxVars>>

\* PackageAnalysis.Execute with the pass on the file: without a root
\* function the tree is printed as it is
WidenSkipped ==
    /\ pc = "found"
    /\ skipsPass(RootFunctions)
    /\ prev' = file
    /\ pc' = "printed"
    /\ UNCHANGED <<file, orig, anaVars, execVars, auxVars>>

NextContext == FindFuncsInfo \/ Widen \/ WidenSkipped
SpecContext == InitContext /\ [][NextContext]_vars

\* C29: the pass puts at most one context argument in front of the
\* arguments of a call expression, also when the callee is a method selected
\* through an interface with registered implementations.
AtMostOneContextArgument ==
    pc = "widened" =>
       \A i \in BodyIdx(prev) : \A k \in 1..Len(prev.decls[i].body) :
          Len(ArgsAfter(i, k)) <= Len(ArgsBefore(i, k)) + 1

=============================================================================
